---- MODULE Spec2Model ----
(***************************************************************************)
(* The reliability layer of gocb (couchbase2 / protostellar providers):    *)
(*   - the batch dispatch engine kvBulkProviderPs (Do, initWorkers,        *)
(*     worker and the eleven per-kind execution methods);                  *)
(*   - the retry orchestrator of retry.go (retryOrchMaybeRetry,            *)
(*     BestEffortRetryStrategy, retriableRequestPs, handleRetriableRequest)*)
(* Spec is the dispatch engine, SpecFair the same with the scheduler's     *)
(* fairness, SpecKinds one batch of any kinds, SpecPool one batch on a     *)
(* larger pool, SpecRetry the retry loop of one request.                   *)
(***************************************************************************)
EXTENDS Integers, Sequences, FiniteSets, TLC

\* ------------------------------------------------------------------ bounds

\* Total number of operations over all the batches submitted.
MaxTotalOps == 2
\* Number of retries one request may record before its dispatches stop failing
\* with a retry reason.
MaxAttempts == 3

\* Number of calls of the accessors of one Bucket.
MaxCalls == 3

\* Two calls of kvBulkProviderPs.Do run concurrently on the one provider.
Callers == {1, 2}

\* ------------------------------------------------- dispatch engine: values

\* const _workerCount of initWorkers (10000 in the source), scaled down.
workerCount == 1

Workers == 1..workerCount

\* The pool of SpecPool, one worker larger.
LargerPool == 1..(workerCount + 1)

\* The cases of the type switch of worker, in source order.
KnownKinds ==
    {"GetOp", "GetAndTouchOp", "TouchOp", "RemoveOp", "UpsertOp", "InsertOp",
     "ReplaceOp", "AppendOp", "PrependOp", "IncrementOp", "DecrementOp"}

\* What a []BulkOp may hold: a value of one of the eleven types, or nil.
Kinds == KnownKinds \cup {"nil"}

\* The methods that call transcoder.Encode before the remote call.
EncodingKinds == {"UpsertOp", "InsertOp", "ReplaceOp"}

\* Every read classified as idempotent.
MapErrIdempotentReads(kind) == kind \in {"GetOp", "GetAndTouchOp"}

\* The methods that read res.Content.
ContentKinds == {"GetOp", "GetAndTouchOp"}

\* res.Content of a response: the oneof is ContentUncompressed or
\* ContentCompressed, with its bytes, or is not set.
NoContent == [type |-> "nil", bytes |-> <<>>]

UncompressedContent == [type |-> "ContentUncompressed", bytes |-> <<7>>]

CompressedContent == [type |-> "ContentCompressed", bytes |-> <<9, 7>>]

ServerContents == {NoContent, UncompressedContent, CompressedContent}

\* The switch with its ContentUncompressed case only: a compressed payload
\* is left out of the result.
ContentOfUncompressedOnly(content) ==
    IF content.type = "ContentUncompressed" THEN content.bytes ELSE <<>>

\* switch c := res.Content.(type): the bytes that go into GetResult.contents.
ContentOf(content) ==
    CASE content.type = "ContentUncompressed" -> content.bytes
      [] content.type = "ContentCompressed" -> content.bytes
      [] OTHER -> <<>>

\* The second argument of mapPsErrorToGocbError in each method.
MapErrIdempotent(kind) == kind = "GetOp"

\* The type of the value each method stores in item.Result on success.
ResultOf(kind) ==
    CASE kind \in {"GetOp", "GetAndTouchOp"} -> "GetResult"
      [] kind \in {"IncrementOp", "DecrementOp"} -> "CounterResult"
      [] OTHER -> "MutationResult"

\* mapPsErrorToGocbError(err, idempotent): the classified error of the item.
MappedErr(kind) ==
    IF MapErrIdempotent(kind) THEN "gocbErrIdempotent" ELSE "gocbErrNonIdempotent"

\* A BulkOp as the caller built it: nothing executed, both slots empty.
\* taken, calls, sent and finished count the worker receptions, the remote
\* calls, the sends on the completion channel and the finish() calls; encoded
\* is what transcoder.Encode answered for the item ("none": not called).
\* ctx is the timeout of the context the entry was pushed with (-1: not
\* pushed). served is the res.Content of the response to a Get or a
\* GetAndTouch and contents the bytes of the GetResult (none before).
NewOp(kind) ==
    [kind |-> kind, Result |-> "nil", Err |-> "nil", finishFn |-> FALSE,
     taken |-> 0, encoded |-> "none", calls |-> 0, sent |-> 0, finished |-> 0,
     ctx |-> -1, served |-> NoContent, contents |-> <<>>]

RECURSIVE SeqsUpTo(_, _)
SeqsUpTo(S, n) ==
    IF n = 0 THEN {<<>>}
    ELSE LET shorter == SeqsUpTo(S, n - 1)
         IN shorter \cup {Append(s, x) : s \in {t \in shorter : Len(t) = n - 1}, x \in S}

RECURSIVE SumLen(_, _)
SumLen(f, S) ==
    IF S = {} THEN 0
    ELSE LET c == CHOOSE x \in S : TRUE
         IN Len(f[c]) + SumLen(f, S \ {c})

\* One kind for each way through a method: one that calls the service
\* directly, one that encodes first.
OpKinds == {"GetOp", "UpsertOp"}

\* One kind for each way through worker: these, and an entry no case matches.
PathKinds == OpKinds \cup {"nil"}

\* The batches of Spec: both callers submit, MaxTotalOps operations in all.
BatchInputs ==
    {f \in [Callers -> SeqsUpTo(PathKinds, MaxTotalOps)] : SumLen(f, Callers) <= MaxTotalOps}

\* The batches of SpecFair: the same, of operations only (no nil entry).
OpInputs ==
    {f \in [Callers -> SeqsUpTo(OpKinds, MaxTotalOps)] : SumLen(f, Callers) <= MaxTotalOps}

\* The batches of SpecPool: caller 1 submits a batch of operations, caller 2
\* an empty batch.
PoolInputs == {f \in OpInputs : f[2] = <<>>}

\* The batches of SpecContent: caller 1 submits a batch of reads and of
\* operations that encode, caller 2 an empty batch.
ContentInputs ==
    {f \in [Callers -> SeqsUpTo(ContentKinds \cup {"UpsertOp"}, MaxTotalOps)] : f[2] = <<>>}

\* The batches of SpecKinds: caller 1 submits a batch in which one entry is of
\* any kind, or nil, and the others of the kinds of OpKinds, caller 2 an
\* empty batch.
KindInputs ==
    {f \in [Callers -> SeqsUpTo(Kinds, MaxTotalOps)] :
        /\ f[2] = <<>>
        /\ Cardinality({i \in 1..Len(f[1]) : f[1][i] \notin OpKinds}) <= 1}

\* c.timeoutsConfig.KVTimeout, in a unit of the model's.
KVTimeout == 2

\* The values of opts.Timeout in SpecBudget: not set, and set.
Timeouts == {0, 5}

\* The default timeout taken once for the batch, not multiplied by len(ops).
TimeoutPerOperation(opts, n) == IF opts = 0 THEN KVTimeout ELSE opts

\* timeout := opts.Timeout; if opts.Timeout == 0 { timeout = KVTimeout *
\* time.Duration(len(ops)) }
Timeout(opts, n) == IF opts = 0 THEN KVTimeout * n ELSE opts

\* An unbuffered completion channel: make(chan BulkOp).
SignalCapUnbuffered(batch) == 0

\* A completion channel with room for one item: make(chan BulkOp, 1).
SignalCapOne(batch) == IF Len(batch) = 0 THEN 0 ELSE 1

\* signal := make(chan BulkOp, len(ops))
SignalCap(batch) == Len(batch)

\* ------------------------------------------------------------------- state

VARIABLES
    once,        \* p.once: "fresh", "running" (initWorkers executing), "done"
    workerChan,  \* p.workerChan: "nil" before make, then "open"
    started,     \* number of go p.worker() statements executed
    wpc,         \* worker position: "none", "idle", "encode", "call", "send"
    wop,         \* the operation a worker holds: <<caller, index>> or <<>>
    cpc,         \* position of each call of Do
    ops,         \* the ops argument of each call of Do
    pushed,      \* operations sent on p.workerChan so far, per call
    drained,     \* completions received from signal so far, per call
    signal,      \* the completion channel's buffer, per call: indices into ops
    signalCap,   \* the completion channel's capacity, per call (-1: not made)
    ctxDone,     \* whether the batch's context is done (cancelled or timed out)
    cancelledAt, \* pushed[c] when the context ended under a running Do (-1: it did not)
    ret,         \* the return value of Do: "none" until it returns
    optsTimeout, \* opts.Timeout of each call of Do (0: not set)
    timeout,     \* the timeout Do gave to context.WithTimeout (-1: not yet)
    kvContent,   \* the res.Content values p.client may answer a Get or a
                 \* GetAndTouch with
    req,         \* the retriableRequestPs of the retry loop
    rstate,      \* the retry loop's state: "Dispatching", "Retrying", or terminal
    now,         \* the clock, in milliseconds since the request was created
    retryWait,   \* the wake time computed by the last retry decision
    rctxErr,     \* ctx.Err() of the request's context: "none", "canceled", "deadline"
    result,      \* what handleRetriableRequest returned
    trace,       \* the failures handled so far, each with the decision taken
    dispatches,  \* number of calls of req.Send so far
    timer,       \* the time at which time.After's timer is to fire (-1: no
                 \* timer is pending)
    bootstrapError, \* b.bootstrapError of the Bucket ("nil": none)
    lastCall,    \* the last call of an accessor of the Bucket and its return
    calls,       \* the calls of the Bucket's accessors so far
    consults     \* the calls of b.connectionManager's methods so far

budgetVars == <<optsTimeout, timeout>>

serverVars == <<kvContent>>

bulkVars ==
    <<once, workerChan, started, wpc, wop, cpc, ops, pushed, drained, signal,
      signalCap, ctxDone, cancelledAt, ret, budgetVars, serverVars>>

retryVars == <<req, rstate, now, retryWait, rctxErr, result, trace, dispatches, timer>>

bucketVars == <<bootstrapError, lastCall, calls, consults>>

vars == <<bulkVars, budgetVars, serverVars, retryVars, bucketVars>>

\* ------------------------------------------------- dispatch engine: actions

\* The worker goroutines of the provider, started or to be started.
Pool == DOMAIN wpc

\* A provider whose initWorkers is to start the workers of the set workers,
\* and the calls of Do entered on it with batches of inputs and an
\* opts.Timeout of timeouts; the service answers reads with a res.Content of
\* contents.
InitBulkFrom(inputs, workers, timeouts, contents) ==
    /\ once = "fresh"
    /\ workerChan = "nil"
    /\ started = 0
    /\ wpc = [w \in workers |-> "none"]
    /\ wop = [w \in workers |-> <<>>]
    /\ cpc = [c \in Callers |-> "start"]
    /\ \E f \in inputs : ops = [c \in Callers |-> [i \in 1..Len(f[c]) |-> NewOp(f[c][i])]]
    /\ pushed = [c \in Callers |-> 0]
    /\ drained = [c \in Callers |-> 0]
    /\ signal = [c \in Callers |-> <<>>]
    /\ signalCap = [c \in Callers |-> -1]
    /\ ctxDone = [c \in Callers |-> FALSE]
    /\ cancelledAt = [c \in Callers |-> -1]
    /\ ret = [c \in Callers |-> "none"]
    /\ optsTimeout \in [Callers -> timeouts]
    /\ timeout = [c \in Callers |-> -1]
    /\ kvContent = contents

\* The same, the service answering every read with uncompressed content.
InitBulkWith(inputs, workers, timeouts) ==
    InitBulkFrom(inputs, workers, timeouts, {UncompressedContent})

\* The same, no call with an opts.Timeout.
InitBulkOver(inputs, workers) == InitBulkWith(inputs, workers, {0})

InitBulk(inputs) == InitBulkOver(inputs, Workers)

\* A check of p.workerChan in place of the Once: every caller that finds the
\* pool not yet made runs initWorkers.
OnceEnterUnguarded(c) ==
    /\ cpc[c] = "start"
    /\ once \in {"fresh", "running"}
    /\ once' = "running"
    /\ cpc' = [cpc EXCEPT ![c] = "init"]
    /\ UNCHANGED <<workerChan, started, wpc, wop, ops, pushed, drained, signal,
                   signalCap, ctxDone, cancelledAt, ret, budgetVars, serverVars, retryVars, bucketVars>>

\* p.once.Do(p.initWorkers), first caller: the Once is entered.
OnceEnter(c) ==
    /\ cpc[c] = "start"
    /\ once = "fresh"
    /\ once' = "running"
    /\ cpc' = [cpc EXCEPT ![c] = "init"]
    /\ UNCHANGED <<workerChan, started, wpc, wop, ops, pushed, drained, signal,
                   signalCap, ctxDone, cancelledAt, ret, budgetVars, serverVars, retryVars, bucketVars>>

\* initWorkers, run inside the Once: the queue is made, the workers started.
initWorkers(c) ==
    /\ cpc[c] = "init"
    /\ workerChan' = "open"
    /\ started' = started + Cardinality(Pool)
    /\ wpc' = [w \in Pool |-> "idle"]
    /\ once' = "done"
    /\ cpc' = [cpc EXCEPT ![c] = "setup"]
    /\ UNCHANGED <<wop, ops, pushed, drained, signal, signalCap, ctxDone, cancelledAt, ret, budgetVars, serverVars, retryVars, bucketVars>>

\* p.once.Do(p.initWorkers), any later caller: returns once the first call
\* of initWorkers has returned.
OncePass(c) ==
    /\ cpc[c] = "start"
    /\ once = "done"
    /\ cpc' = [cpc EXCEPT ![c] = "setup"]
    /\ UNCHANGED <<once, workerChan, started, wpc, wop, ops, pushed, drained,
                   signal, signalCap, ctxDone, cancelledAt, ret, budgetVars, serverVars, retryVars, bucketVars>>

\* Do, from the tracing span to make(chan BulkOp, len(ops)): the timeout is
\* computed and given to context.WithTimeout, whose context is done from the
\* start when the timeout is not positive.
DoSetup(c) ==
    /\ cpc[c] = "setup"
    /\ LET t == Timeout(optsTimeout[c], Len(ops[c]))
       IN /\ timeout' = [timeout EXCEPT ![c] = t]
          /\ ctxDone' = [ctxDone EXCEPT ![c] = @ \/ t <= 0]
          /\ cancelledAt' = [cancelledAt EXCEPT ![c] = IF t <= 0 THEN 0 ELSE @]
    /\ signalCap' = [signalCap EXCEPT ![c] = SignalCap(ops[c])]
    /\ cpc' = [cpc EXCEPT ![c] = IF Len(ops[c]) = 0 THEN "drain" ELSE "push"]
    /\ UNCHANGED <<once, workerChan, started, wpc, wop, ops, pushed, drained,
                   signal, ret, optsTimeout, serverVars, retryVars, bucketVars>>

\* The position a worker is in after its type switch has picked the method
\* for an operation of this kind; no case matches nil, and the worker goes
\* back to reading the queue.
AfterSwitch(kind) ==
    IF kind \in EncodingKinds THEN "encode"
    ELSE IF kind \in KnownKinds THEN "call"
    ELSE "idle"

\* p.workerChan <- bulkOpChanStruct{...} in Do meets `for op := range
\* p.workerChan` in worker w: the queue is unbuffered, so the send and the
\* receive are one step. The method chosen sets item.bulkOp.finishFn.
Dispatch(c, w) ==
    /\ cpc[c] = "push"
    /\ workerChan = "open"
    /\ wpc[w] = "idle"
    /\ LET i == pushed[c] + 1
           kind == ops[c][i].kind
           next == AfterSwitch(kind)
       IN /\ pushed' = [pushed EXCEPT ![c] = i]
          /\ cpc' = [cpc EXCEPT ![c] = IF i = Len(ops[c]) THEN "drain" ELSE "push"]
          /\ wpc' = [wpc EXCEPT ![w] = next]
          /\ wop' = [wop EXCEPT ![w] = IF next = "idle" THEN <<>> ELSE <<c, i>>]
          /\ ops' = [ops EXCEPT ![c][i].taken = @ + 1,
                                ![c][i].ctx = timeout[c],
                                ![c][i].finishFn = (next # "idle")]
    /\ UNCHANGED <<once, workerChan, started, drained, signal, signalCap, ctxDone, cancelledAt, ret, budgetVars, serverVars, retryVars, bucketVars>>

\* The item after transcoder.Encode(item.Value) has returned: on an error,
\* item.Err = err.
Encoded(op, encodeErr) ==
    IF encodeErr
    THEN [op EXCEPT !.encoded = "err", !.Err = "codecErr"]
    ELSE [op EXCEPT !.encoded = "ok"]

\* The error path of Encode returning without `signal <- item`.
AfterEncodeNoSignal(encodeErr) == IF encodeErr THEN "idle" ELSE "call"

\* The error path of Encode without its return: the method goes on to the
\* remote call.
AfterEncodeNoReturn(encodeErr) == "call"

\* Where Upsert, Insert and Replace go after Encode: on an error to
\* `signal <- item; return`, else on to the remote call.
AfterEncode(encodeErr) == IF encodeErr THEN "send" ELSE "call"

\* Upsert, Insert, Replace: transcoder.Encode(item.Value) returns.
Encode(w) ==
    /\ wpc[w] = "encode"
    /\ LET c == wop[w][1]
           i == wop[w][2]
       IN \E encodeErr \in BOOLEAN :
            /\ ops' = [ops EXCEPT ![c][i] = Encoded(@, encodeErr)]
            /\ wpc' = [wpc EXCEPT ![w] = AfterEncode(encodeErr)]
    /\ UNCHANGED <<once, workerChan, started, wop, cpc, pushed, drained, signal,
                   signalCap, ctxDone, cancelledAt, ret, budgetVars, serverVars, retryVars, bucketVars>>

\* The error path of the remote call without its return: the method goes on
\* and writes item.Result as well.
AfterCallSetsBoth(op, callErr) ==
    IF callErr
    THEN [op EXCEPT !.calls = @ + 1, !.Err = MappedErr(op.kind), !.Result = ResultOf(op.kind)]
    ELSE [op EXCEPT !.calls = @ + 1, !.Result = ResultOf(op.kind)]

\* The slots of the item after p.client.<Kind>(ctx, request) has returned.
AfterCall(op, callErr) ==
    IF callErr
    THEN [op EXCEPT !.calls = @ + 1, !.Err = MappedErr(op.kind)]
    ELSE [op EXCEPT !.calls = @ + 1, !.Result = ResultOf(op.kind)]

\* A method that calls the service a second time when the first call failed.
CallRetriedOnError(w) ==
    /\ wpc[w] = "call"
    /\ LET c == wop[w][1]
           i == wop[w][2]
       IN \E callErr \in (IF ctxDone[c] THEN {TRUE} ELSE BOOLEAN) :
            /\ ops' = [ops EXCEPT ![c][i] = AfterCall(@, callErr)]
            /\ wpc' = [wpc EXCEPT ![w] = IF callErr /\ ops[c][i].calls = 0
                                         THEN "call" ELSE "send"]
    /\ UNCHANGED <<once, workerChan, started, wop, cpc, pushed, drained, signal,
                   signalCap, ctxDone, cancelledAt, ret, budgetVars, serverVars, retryVars, bucketVars>>

\* The GetResult of Get and GetAndTouch built from the response: contents is
\* what the switch on res.Content took.
WithContents(op, callErr, content) ==
    IF callErr \/ op.kind \notin ContentKinds THEN op
    ELSE [op EXCEPT !.served = content, !.contents = ContentOf(content)]

\* p.client.<Kind>(ctx, request) returns: an error (always, when the context
\* is already done) or a response; the method writes Err or Result.
Call(w) ==
    /\ wpc[w] = "call"
    /\ LET c == wop[w][1]
           i == wop[w][2]
       IN \E callErr \in (IF ctxDone[c] THEN {TRUE} ELSE BOOLEAN) :
            \E content \in (IF ~callErr /\ ops[c][i].kind \in ContentKinds
                             THEN kvContent ELSE {NoContent}) :
              ops' = [ops EXCEPT ![c][i] = WithContents(AfterCall(@, callErr), callErr, content)]
    /\ wpc' = [wpc EXCEPT ![w] = "send"]
    /\ UNCHANGED <<once, workerChan, started, wop, cpc, pushed, drained, signal,
                   signalCap, ctxDone, cancelledAt, ret, budgetVars, serverVars, retryVars, bucketVars>>

\* A send on the completion channel of call c can proceed: there is room in
\* the buffer, or the receiver is waiting in `<-signal`.
CanSend(c) ==
    \/ Len(signal[c]) < signalCap[c]
    \/ signal[c] = <<>> /\ cpc[c] = "drain" /\ drained[c] < Len(ops[c])

\* The error path of Encode without its return, after `signal <- item`: the
\* method goes on to the remote call with the item it has handed back.
SendWithoutReturn(w) ==
    /\ wpc[w] = "send"
    /\ LET c == wop[w][1]
           i == wop[w][2]
           goesOn == ops[c][i].encoded = "err" /\ ops[c][i].calls = 0
       IN /\ CanSend(c)
          /\ signal' = [signal EXCEPT ![c] = Append(@, i)]
          /\ ops' = [ops EXCEPT ![c][i].sent = @ + 1]
          /\ wpc' = [wpc EXCEPT ![w] = IF goesOn THEN "call" ELSE "idle"]
          /\ wop' = [wop EXCEPT ![w] = IF goesOn THEN @ ELSE <<>>]
    /\ UNCHANGED <<once, workerChan, started, cpc, pushed, drained, signalCap,
                   ctxDone, cancelledAt, ret, budgetVars, serverVars, retryVars, bucketVars>>

\* One completion channel shared by the batches in flight: the item goes to
\* whichever call of Do is receiving.
SendToAnyCall(w) ==
    /\ wpc[w] = "send"
    /\ LET c == wop[w][1]
           i == wop[w][2]
       IN \E d \in Callers :
            /\ signalCap[d] >= 0
            /\ CanSend(d)
            /\ signal' = [signal EXCEPT ![d] = Append(@, i)]
            /\ ops' = [ops EXCEPT ![c][i].sent = @ + 1]
    /\ wpc' = [wpc EXCEPT ![w] = "idle"]
    /\ wop' = [wop EXCEPT ![w] = <<>>]
    /\ UNCHANGED <<once, workerChan, started, cpc, pushed, drained, signalCap,
                   ctxDone, cancelledAt, ret, budgetVars, serverVars, retryVars, bucketVars>>

\* A worker that leaves its loop after an item that failed.
SendThenExit(w) ==
    /\ wpc[w] = "send"
    /\ LET c == wop[w][1]
           i == wop[w][2]
       IN /\ CanSend(c)
          /\ signal' = [signal EXCEPT ![c] = Append(@, i)]
          /\ ops' = [ops EXCEPT ![c][i].sent = @ + 1]
          /\ wpc' = [wpc EXCEPT ![w] = IF ops[c][i].Err # "nil" THEN "none" ELSE "idle"]
    /\ wop' = [wop EXCEPT ![w] = <<>>]
    /\ UNCHANGED <<once, workerChan, started, cpc, pushed, drained, signalCap,
                   ctxDone, cancelledAt, ret, budgetVars, serverVars, retryVars, bucketVars>>

\* signal <- item, then the method returns and the worker reads the queue
\* again.
Send(w) ==
    /\ wpc[w] = "send"
    /\ LET c == wop[w][1]
           i == wop[w][2]
       IN /\ CanSend(c)
          /\ signal' = [signal EXCEPT ![c] = Append(@, i)]
          /\ ops' = [ops EXCEPT ![c][i].sent = @ + 1]
    /\ wpc' = [wpc EXCEPT ![w] = "idle"]
    /\ wop' = [wop EXCEPT ![w] = <<>>]
    /\ UNCHANGED <<once, workerChan, started, cpc, pushed, drained, signalCap,
                   ctxDone, cancelledAt, ret, budgetVars, serverVars, retryVars, bucketVars>>

\* A receive from signal that may run between two pushes.
DrainWhilePushing(c) ==
    /\ cpc[c] \in {"push", "drain"}
    /\ drained[c] < Len(ops[c])
    /\ signal[c] # <<>>
    /\ LET i == Head(signal[c])
       IN ops' = [ops EXCEPT ![c][i].finished = @ + 1]
    /\ signal' = [signal EXCEPT ![c] = Tail(@)]
    /\ drained' = [drained EXCEPT ![c] = @ + 1]
    /\ UNCHANGED <<once, workerChan, started, wpc, wop, cpc, pushed, signalCap,
                   ctxDone, cancelledAt, ret, budgetVars, serverVars, retryVars, bucketVars>>

\* for range ops { item := <-signal; item.finish() }
Drain(c) ==
    /\ cpc[c] = "drain"
    /\ drained[c] < Len(ops[c])
    /\ signal[c] # <<>>
    /\ LET i == Head(signal[c])
       IN ops' = [ops EXCEPT ![c][i].finished = @ + 1]
    /\ signal' = [signal EXCEPT ![c] = Tail(@)]
    /\ drained' = [drained EXCEPT ![c] = @ + 1]
    /\ UNCHANGED <<once, workerChan, started, wpc, wop, cpc, pushed, signalCap,
                   ctxDone, cancelledAt, ret, budgetVars, serverVars, retryVars, bucketVars>>

\* Do returning the first error found in the items' Err slots.
DoResultFirstErr(batch) ==
    IF \E i \in 1..Len(batch) : batch[i].Err # "nil" THEN "itemErr" ELSE "nil"

\* The error Do returns for a batch: nil, whatever the items' Err slots hold.
DoResult(batch) == "nil"

\* Do giving up its wait for completions when the context is done.
DoReturnOnCtxDone(c) ==
    /\ cpc[c] = "drain"
    /\ drained[c] = Len(ops[c]) \/ ctxDone[c]
    /\ cpc' = [cpc EXCEPT ![c] = "done"]
    /\ ret' = [ret EXCEPT ![c] = "nil"]
    /\ ctxDone' = [ctxDone EXCEPT ![c] = TRUE]
    /\ UNCHANGED <<once, workerChan, started, wpc, wop, ops, pushed, drained,
                   signal, signalCap, cancelledAt, budgetVars, serverVars, retryVars, bucketVars>>

\* return nil, after the last completion; the deferred cancel() runs.
DoReturn(c) ==
    /\ cpc[c] = "drain"
    /\ drained[c] = Len(ops[c])
    /\ cpc' = [cpc EXCEPT ![c] = "done"]
    /\ ret' = [ret EXCEPT ![c] = DoResult(ops[c])]
    /\ ctxDone' = [ctxDone EXCEPT ![c] = TRUE]
    /\ UNCHANGED <<once, workerChan, started, wpc, wop, ops, pushed, drained,
                   signal, signalCap, cancelledAt, budgetVars, serverVars, retryVars, bucketVars>>

\* The batch's context ends before all the items have completed: opts.Context
\* is cancelled by the caller, or the deadline of context.WithTimeout passes.
CtxDone(c) ==
    /\ cpc[c] \in {"push", "drain"}
    /\ drained[c] < Len(ops[c])
    /\ ~ctxDone[c]
    /\ ctxDone' = [ctxDone EXCEPT ![c] = TRUE]
    /\ cancelledAt' = [cancelledAt EXCEPT ![c] = pushed[c]]
    /\ UNCHANGED <<once, workerChan, started, wpc, wop, cpc, ops, pushed, drained,
                   signal, signalCap, ret, budgetVars, serverVars, retryVars, bucketVars>>

NextBulk ==
    \/ \E c \in Callers : OnceEnter(c)
    \/ \E c \in Callers : initWorkers(c)
    \/ \E c \in Callers : OncePass(c)
    \/ \E c \in Callers : DoSetup(c)
    \/ \E c \in Callers, w \in Pool : Dispatch(c, w)
    \/ \E w \in Pool : Encode(w)
    \/ \E w \in Pool : Call(w)
    \/ \E w \in Pool : Send(w)
    \/ \E c \in Callers : Drain(c)
    \/ \E c \in Callers : DoReturn(c)
    \/ \E c \in Callers : CtxDone(c)

\* What the goroutines of the engine do when they are scheduled: every step
\* but the end of a context, which nothing obliges to happen.
NextBulkRun ==
    \/ \E c \in Callers : OnceEnter(c) \/ initWorkers(c) \/ OncePass(c) \/ DoSetup(c)
    \/ \E c \in Callers, w \in Pool : Dispatch(c, w)
    \/ \E w \in Pool : Encode(w) \/ Call(w) \/ Send(w)
    \/ \E c \in Callers : Drain(c) \/ DoReturn(c)

\* --------------------------------------------------- retry orchestrator: values

\* The retry reasons of the model, by the names of their Description().
Reasons == {"SERVICE_NOT_AVAILABLE", "KV_LOCKED", "KV_COLLECTION_OUTDATED"}

\* RetryReason.AllowsNonIdempotentRetry()
AllowsNonIdempotentRetry(reason) ==
    reason \in {"SERVICE_NOT_AVAILABLE", "KV_COLLECTION_OUTDATED"}

\* RetryReason.AlwaysRetry()
AlwaysRetry(reason) == reason = "KV_COLLECTION_OUTDATED"

\* gocbcore.ControlledBackoff, in milliseconds.
ControlledBackoff(retryAttempts) ==
    CASE retryAttempts = 0 -> 1
      [] retryAttempts = 1 -> 10
      [] retryAttempts = 2 -> 50
      [] retryAttempts = 3 -> 100
      [] retryAttempts = 4 -> 500
      [] OTHER -> 1000

\* gocbcore.ExponentialBackoff(1*time.Millisecond, 500*time.Millisecond, 2),
\* the calculator NewBestEffortRetryStrategy(nil) installs, in milliseconds.
ExponentialBackoff(retryAttempts) ==
    IF retryAttempts >= 9 THEN 500 ELSE 2 ^ retryAttempts

\* The BackoffCalculators of the model: the default one, and two a caller may
\* supply, one that always answers 0 and one that answers a negative duration.
Calculators == {"exponential", "zero", "negative"}

BackoffCalculator(calc, retryAttempts) ==
    CASE calc = "exponential" -> ExponentialBackoff(retryAttempts)
      [] calc = "zero" -> 0
      [] calc = "negative" -> 0 - 1 - retryAttempts

\* The RetryStrategy of a request: none (a nil interface), a
\* BestEffortRetryStrategy with one of the calculators, or a strategy of the
\* caller's whose RetryAfter answers nil or a NoRetryRetryAction.
Strategies ==
    {[kind |-> k, calc |-> "none"] : k \in {"nil", "NilAction", "NoRetry"}}
        \cup {[kind |-> "BestEffort", calc |-> calc] : calc \in Calculators}

NilAction == [kind |-> "nil", WithDuration |-> 0]
NoRetryRetryAction == [kind |-> "NoRetryRetryAction", WithDuration |-> 0]
WithDurationRetryAction(d) == [kind |-> "WithDurationRetryAction", WithDuration |-> d]
\* No RetryAction: the strategy was not asked.
NotAsked == [kind |-> "notAsked", WithDuration |-> 0]

\* RetryAction.Duration()
Duration(action) ==
    IF action.kind = "WithDurationRetryAction" THEN action.WithDuration ELSE 0

\* newRetriableRequestPS
newRetriableRequestPS(idempotent, strategy) ==
    [reasons |-> <<>>, attempts |-> 0, operation |-> "op", identifier |-> "a1b2c3",
     idempotent |-> idempotent, strategy |-> strategy]

\* RetryAfter without the idempotency test: every failure is retried.
BestEffortRetryAfterUnchecked(calc, r, reason) ==
    WithDurationRetryAction(BackoffCalculator(calc, r.attempts))

\* RetryAfter with `&&` for `||`: only an idempotent request failing for a
\* reason that allows a non-idempotent retry is retried.
BestEffortRetryAfterBoth(calc, r, reason) ==
    IF r.idempotent /\ AllowsNonIdempotentRetry(reason)
    THEN WithDurationRetryAction(BackoffCalculator(calc, r.attempts))
    ELSE NoRetryRetryAction

\* RetryAfter asking the calculator for the backoff of the attempt to come.
BestEffortRetryAfterNextAttempt(calc, r, reason) ==
    IF r.idempotent \/ AllowsNonIdempotentRetry(reason)
    THEN WithDurationRetryAction(BackoffCalculator(calc, r.attempts + 1))
    ELSE NoRetryRetryAction

\* BestEffortRetryStrategy.RetryAfter
BestEffortRetryAfter(calc, r, reason) ==
    IF r.idempotent \/ AllowsNonIdempotentRetry(reason)
    THEN WithDurationRetryAction(BackoffCalculator(calc, r.attempts))
    ELSE NoRetryRetryAction

\* RetryStrategy.RetryAfter of the request's strategy (which is not nil).
RetryAfter(strategy, r, reason) ==
    CASE strategy.kind = "BestEffort" -> BestEffortRetryAfter(strategy.calc, r, reason)
      [] strategy.kind = "NoRetry" -> NoRetryRetryAction
      [] strategy.kind = "NilAction" -> NilAction

\* recordRetryAttempt appending the reason without looking for it.
recordRetryAttemptAppend(r, reason) ==
    [r EXCEPT !.attempts = @ + 1, !.reasons = Append(@, reason)]

\* recordRetryAttempt keeping the last reason only.
recordRetryAttemptLastOnly(r, reason) ==
    [r EXCEPT !.attempts = @ + 1, !.reasons = <<reason>>]

\* retriableRequestPs.recordRetryAttempt (attempts is a uint32; MaxAttempts
\* keeps it far from wrapping).
recordRetryAttempt(r, reason) ==
    [r EXCEPT !.attempts = @ + 1,
              !.reasons = IF \E i \in 1..Len(@) : @[i] = reason
                          THEN @ ELSE Append(@, reason)]

\* A decision of retryOrchMaybeRetry: the bool and the time.Time it returns
\* (wake -1 stands for time.Time{}, before every reading of the clock), the
\* request as it leaves it, and the action the strategy answered.
Decision(retry, wake, r, action) ==
    [retry |-> retry, wake |-> wake, req |-> r, action |-> action]

\* retryOrchMaybeRetry testing the strategy before reason.AlwaysRetry().
retryOrchStrategyFirst(r, reason, t) ==
    IF r.strategy.kind = "nil"
    THEN Decision(FALSE, -1, r, NotAsked)
    ELSE IF AlwaysRetry(reason)
    THEN Decision(TRUE, t + ControlledBackoff(r.attempts),
                  recordRetryAttempt(r, reason), NotAsked)
    ELSE LET action == RetryAfter(r.strategy, r, reason)
         IN IF action.kind = "nil" \/ Duration(action) = 0
            THEN Decision(FALSE, -1, r, action)
            ELSE Decision(TRUE, t + Duration(action),
                          recordRetryAttempt(r, reason), action)

\* retryOrchMaybeRetry recording the attempt before it asks the strategy.
retryOrchRecordFirst(r, reason, t) ==
    IF AlwaysRetry(reason)
    THEN Decision(TRUE, t + ControlledBackoff(r.attempts),
                  recordRetryAttempt(r, reason), NotAsked)
    ELSE IF r.strategy.kind = "nil"
    THEN Decision(FALSE, -1, r, NotAsked)
    ELSE LET action == RetryAfter(r.strategy, r, reason)
         IN IF action.kind = "nil" \/ Duration(action) = 0
            THEN Decision(FALSE, -1, recordRetryAttempt(r, reason), action)
            ELSE Decision(TRUE, t + Duration(action),
                          recordRetryAttempt(r, reason), action)

\* retryOrchMaybeRetry giving up only on a negative duration.
retryOrchZeroRetries(r, reason, t) ==
    IF AlwaysRetry(reason)
    THEN Decision(TRUE, t + ControlledBackoff(r.attempts),
                  recordRetryAttempt(r, reason), NotAsked)
    ELSE IF r.strategy.kind = "nil"
    THEN Decision(FALSE, -1, r, NotAsked)
    ELSE LET action == RetryAfter(r.strategy, r, reason)
         IN IF action.kind = "nil" \/ Duration(action) < 0
            THEN Decision(FALSE, -1, r, action)
            ELSE Decision(TRUE, t + Duration(action),
                          recordRetryAttempt(r, reason), action)

\* retryOrchMaybeRetry computing the controlled backoff after it has recorded
\* the attempt.
retryOrchBackoffAfterRecord(r, reason, t) ==
    IF AlwaysRetry(reason)
    THEN Decision(TRUE, t + ControlledBackoff(recordRetryAttempt(r, reason).attempts),
                  recordRetryAttempt(r, reason), NotAsked)
    ELSE IF r.strategy.kind = "nil"
    THEN Decision(FALSE, -1, r, NotAsked)
    ELSE LET action == RetryAfter(r.strategy, r, reason)
         IN IF action.kind = "nil" \/ Duration(action) = 0
            THEN Decision(FALSE, -1, r, action)
            ELSE Decision(TRUE, t + Duration(action),
                          recordRetryAttempt(r, reason), action)

\* retryOrchMaybeRetry returning time.Now() for the wake time, the duration
\* not added.
retryOrchWakeNow(r, reason, t) ==
    IF AlwaysRetry(reason)
    THEN Decision(TRUE, t, recordRetryAttempt(r, reason), NotAsked)
    ELSE IF r.strategy.kind = "nil"
    THEN Decision(FALSE, -1, r, NotAsked)
    ELSE LET action == RetryAfter(r.strategy, r, reason)
         IN IF action.kind = "nil" \/ Duration(action) = 0
            THEN Decision(FALSE, -1, r, action)
            ELSE Decision(TRUE, t, recordRetryAttempt(r, reason), action)

\* retryOrchMaybeRetry(req, reason), called at time t.
retryOrchMaybeRetry(r, reason, t) ==
    IF AlwaysRetry(reason)
    THEN Decision(TRUE, t + ControlledBackoff(r.attempts),
                  recordRetryAttempt(r, reason), NotAsked)
    ELSE IF r.strategy.kind = "nil"
    THEN Decision(FALSE, -1, r, NotAsked)
    ELSE LET action == RetryAfter(r.strategy, r, reason)
         IN IF action.kind = "nil"
            THEN Decision(FALSE, -1, r, action)
            ELSE IF Duration(action) = 0
            THEN Decision(FALSE, -1, r, action)
            ELSE Decision(TRUE, t + Duration(action),
                          recordRetryAttempt(r, reason), action)

\* What req.Send returns, as mapPsErrorToGocbError and retryReasonFn classify
\* it: a result, an error that is ErrTimeout, an error with no retry reason,
\* or an error with a retry reason. A request that has recorded MaxAttempts
\* retries fails with no further retry reason.
Outcomes(r) ==
    {"ok", "timeout", "noReason"} \cup (IF r.attempts < MaxAttempts THEN Reasons ELSE {})

\* The time a dispatch may take, in milliseconds.
SendTimes == {0, 1}

NoResult ==
    [kind |-> "none", InnerError |-> "none", OperationID |-> "none", Opaque |-> "none",
     TimeObserved |-> 0, RetryReasons |-> <<>>, RetryAttempts |-> 0]

\* return res, nil
ValueResult == [NoResult EXCEPT !.kind = "value"]

\* A TimeoutError that counts the attempt that timed out as a retry.
TimeoutErrorCountingAttempt(inner, r, t) ==
    [kind |-> "TimeoutError", InnerError |-> inner, OperationID |-> r.operation,
     Opaque |-> r.identifier, TimeObserved |-> t, RetryReasons |-> r.reasons,
     RetryAttempts |-> r.attempts + 1]

\* &TimeoutError{InnerError: inner, OperationID: req.Operation(), ...}
TimeoutError(inner, r, t) ==
    [kind |-> "TimeoutError", InnerError |-> inner, OperationID |-> r.operation,
     Opaque |-> r.identifier, TimeObserved |-> t, RetryReasons |-> r.reasons,
     RetryAttempts |-> r.attempts]

\* return nil, err: the raw error of the dispatch, not classified.
GocbErrUnmapped(outcome) == [NoResult EXCEPT !.kind = "rawErr", !.InnerError = outcome]

\* return nil, gocbErr: the classified error, as mapPsErrorToGocbError made it.
GocbErr(outcome) == [NoResult EXCEPT !.kind = "gocbErr", !.InnerError = outcome]

\* makeGenericError(ErrRequestCanceled, nil)
CanceledError == [NoResult EXCEPT !.kind = "ErrRequestCanceled"]

Terminal == {"Completed", "Failed", "TimedOut", "Cancelled"}

\* time.After(time.Until(wake)) called at time t: a timer pending until
\* wake, or one that has fired already when wake is not after t.
AfterTimer(wake, t) == IF wake > t THEN wake ELSE -1

\* What becomes of the timer of time.After when the select returns through
\* its other case: nothing stops it, so it stays pending until it fires,
\* unless the runtime (Go 1.23 and later, with its unreferenced channel
\* timers) drops it at once.
AfterSelectReturns(pending) == {pending, -1}

\* -------------------------------------------------- retry orchestrator: actions

InitRetry(strategies) ==
    /\ \E idempotent \in BOOLEAN, strategy \in strategies :
         req = newRetriableRequestPS(idempotent, strategy)
    /\ rstate = "Dispatching"
    /\ now = 0
    /\ retryWait = -1
    /\ rctxErr = "none"
    /\ result = NoResult
    /\ trace = <<>>
    /\ dispatches = 1
    /\ timer = -1

\* One entry of trace: the classified outcome of a failed dispatch, whether
\* retryReasonFn and retryOrchMaybeRetry were called for it, and what the
\* latter decided. The timeout branch returns before retryReasonFn is called.
Handled(outcome, decided, d, r, t) ==
    [outcome |-> outcome, classified |-> outcome # "timeout", decided |-> decided,
     retry |-> d.retry, wake |-> d.wake, action |-> d.action,
     attemptsBefore |-> r.attempts, at |-> t]

\* req.Send(ctx) returns and handleRetriableRequest handles the outcome, up
\* to its return or to the select.
SendReturns ==
    /\ rstate = "Dispatching"
    /\ \E outcome \in Outcomes(req), dt \in SendTimes :
         LET t == now + dt
             d == IF outcome \in Reasons
                  THEN retryOrchMaybeRetry(req, outcome, t)
                  ELSE Decision(FALSE, -1, req, NotAsked)
         IN /\ now' = t
            /\ req' = d.req
            /\ retryWait' = IF d.retry THEN d.wake ELSE retryWait
            /\ timer' = IF d.retry THEN AfterTimer(d.wake, t) ELSE timer
            /\ trace' = IF outcome = "ok" THEN trace
                        ELSE Append(trace, Handled(outcome, outcome \in Reasons, d, req, t))
            /\ rstate' = CASE outcome = "ok" -> "Completed"
                           [] outcome = "timeout" -> "TimedOut"
                           [] outcome = "noReason" -> "Failed"
                           [] OTHER -> IF d.retry THEN "Retrying" ELSE "Failed"
            /\ result' = CASE outcome = "ok" -> ValueResult
                           [] outcome = "timeout" -> TimeoutError("rawErr", req, t)
                           [] outcome = "noReason" -> GocbErr(outcome)
                           [] OTHER -> IF d.retry THEN result ELSE GocbErr(outcome)
    /\ UNCHANGED <<rctxErr, dispatches, bulkVars, bucketVars>>

\* Time passes while the request waits in the select, up to the wake time.
\* A context that is done wakes the request at once.
WaitElapses ==
    /\ rstate = "Retrying"
    /\ rctxErr = "none"
    /\ now < retryWait
    /\ now' = retryWait
    /\ timer' = -1
    /\ UNCHANGED <<req, rstate, retryWait, rctxErr, result, trace, dispatches, bulkVars, bucketVars>>

\* The loop going on to the next dispatch without waiting for the timer.
TimerFiresEarly ==
    /\ rstate = "Retrying"
    /\ rstate' = "Dispatching"
    /\ dispatches' = dispatches + 1
    /\ UNCHANGED <<req, now, retryWait, rctxErr, result, trace, timer, bulkVars, bucketVars>>

\* case <-time.After(time.Until(retryWait)): continue
TimerFires ==
    /\ rstate = "Retrying"
    /\ now >= retryWait
    /\ rstate' = "Dispatching"
    /\ dispatches' = dispatches + 1
    /\ UNCHANGED <<req, now, retryWait, rctxErr, result, trace, timer, bulkVars, bucketVars>>

\* The ctx.Done() case without the test of ctx.Err(): a TimeoutError for
\* every cause.
AfterCtxDoneAlwaysTimeout(cause, r, t) ==
    [state |-> "TimedOut", result |-> TimeoutError("ErrUnambiguousTimeout", r, t)]

\* The ctx.Done() case returning the classified error of the failed dispatch
\* for a cancellation.
AfterCtxDoneReturnsGocbErr(cause, r, t) ==
    IF cause = "deadline"
    THEN [state |-> "TimedOut", result |-> TimeoutError("ErrUnambiguousTimeout", r, t)]
    ELSE [state |-> "Failed", result |-> GocbErr("canceled")]

\* The body of `case <-ctx.Done()`: the state the request ends in and the
\* error returned, for ctx.Err() = cause.
AfterCtxDone(cause, r, t) ==
    IF cause = "deadline"
    THEN [state |-> "TimedOut", result |-> TimeoutError("ErrUnambiguousTimeout", r, t)]
    ELSE [state |-> "Cancelled", result |-> CanceledError]

\* A select whose ctx.Done() case is taken for a deadline only.
CtxFiresOnDeadlineOnly ==
    /\ rstate = "Retrying"
    /\ rctxErr = "deadline"
    /\ rstate' = AfterCtxDone(rctxErr, req, now).state
    /\ result' = AfterCtxDone(rctxErr, req, now).result
    /\ timer' \in AfterSelectReturns(timer)
    /\ UNCHANGED <<req, now, retryWait, rctxErr, trace, dispatches, bulkVars, bucketVars>>

\* case <-ctx.Done()
CtxFires ==
    /\ rstate = "Retrying"
    /\ rctxErr # "none"
    /\ rstate' = AfterCtxDone(rctxErr, req, now).state
    /\ result' = AfterCtxDone(rctxErr, req, now).result
    /\ timer' \in AfterSelectReturns(timer)
    /\ UNCHANGED <<req, now, retryWait, rctxErr, trace, dispatches, bulkVars, bucketVars>>

\* The request's context ends: its deadline passes or its caller cancels it.
RequestCtxDone ==
    /\ rstate \notin Terminal
    /\ rctxErr = "none"
    /\ \E cause \in {"canceled", "deadline"} : rctxErr' = cause
    /\ UNCHANGED <<req, rstate, now, retryWait, result, trace, dispatches, timer,
                   bulkVars, bucketVars>>

\* The timer that handleRetriableRequest left pending fires, with nobody to
\* receive its wakeup.
TimerExpires ==
    /\ rstate \in Terminal
    /\ timer # -1
    /\ now' = timer
    /\ timer' = -1
    /\ UNCHANGED <<req, rstate, retryWait, rctxErr, result, trace, dispatches, bulkVars, bucketVars>>

NextRetry ==
    \/ SendReturns
    \/ WaitElapses
    \/ TimerFires
    \/ CtxFires
    \/ RequestCtxDone
    \/ TimerExpires

\* ------------------------------------------------------------------ Bucket

\* The errors Cluster.Bucket may hand to setBootstrapError.
BootstrapErrors == {"errOpenA", "errOpenB"}

\* The accessors of Bucket that test b.bootstrapError first, and the one that
\* does not.
GuardedProviders ==
    {"getKvProvider", "getKvCapabilitiesProvider", "getKvBulkProvider",
     "getQueryProvider", "getAnalyticsProvider"}

Providers == GuardedProviders \cup {"getQueryIndexProvider"}

\* What a method of the connection manager answers: a provider, or an error.
ManagerAnswers ==
    {[agent |-> "provider", err |-> "nil"], [agent |-> "nil", err |-> "errManager"]}

NoAnswer == [agent |-> "nil", err |-> "nil"]

\* What provider.WaitUntilReady answers.
WaitAnswers == {"nil", "errWait"}

\* An accessor that asks the connection manager first and looks at the
\* bootstrap error only when the manager gave a provider.
getProviderManagerFirst(fn, stored, answer) ==
    IF answer.err # "nil"
    THEN [agent |-> "nil", err |-> answer.err, consulted |-> TRUE]
    ELSE IF fn \in GuardedProviders /\ stored # "nil"
    THEN [agent |-> "nil", err |-> stored, consulted |-> TRUE]
    ELSE [agent |-> answer.agent, err |-> "nil", consulted |-> TRUE]

\* getKvProvider, getKvCapabilitiesProvider, getKvBulkProvider,
\* getQueryProvider, getAnalyticsProvider and getQueryIndexProvider: what the
\* accessor fn returns when b.bootstrapError is stored and the connection
\* manager, if asked, gives answer.
getProvider(fn, stored, answer) ==
    IF fn \in GuardedProviders /\ stored # "nil"
    THEN [agent |-> "nil", err |-> stored, consulted |-> FALSE]
    ELSE IF answer.err # "nil"
    THEN [agent |-> "nil", err |-> answer.err, consulted |-> TRUE]
    ELSE [agent |-> answer.agent, err |-> "nil", consulted |-> TRUE]

\* Bucket.WaitUntilReady: the error it returns.
WaitUntilReady(stored, answer, waited) ==
    IF stored # "nil"
    THEN [agent |-> "nil", err |-> stored, consulted |-> FALSE]
    ELSE IF answer.err # "nil"
    THEN [agent |-> "nil", err |-> answer.err, consulted |-> TRUE]
    ELSE [agent |-> "nil", err |-> waited, consulted |-> TRUE]

NoCall ==
    [fn |-> "none", answer |-> NoAnswer, waited |-> "nil", agent |-> "nil",
     err |-> "nil", consulted |-> FALSE]

\* newBucket
newBucket ==
    /\ bootstrapError = "nil"
    /\ lastCall = NoCall
    /\ calls = 0
    /\ consults = 0

\* setBootstrapError(err)
setBootstrapError(err) ==
    /\ bootstrapError' = err
    /\ UNCHANGED <<lastCall, calls, consults, bulkVars, retryVars>>

\* A call of one of the provider accessors.
CallProvider(fn) ==
    /\ calls < MaxCalls
    /\ \E answer \in ManagerAnswers :
         LET r == getProvider(fn, bootstrapError, answer)
         IN /\ lastCall' = [fn |-> fn, answer |-> IF r.consulted THEN answer ELSE NoAnswer,
                            waited |-> "nil", agent |-> r.agent, err |-> r.err,
                            consulted |-> r.consulted]
            /\ consults' = IF r.consulted THEN consults + 1 ELSE consults
    /\ calls' = calls + 1
    /\ UNCHANGED <<bootstrapError, bulkVars, retryVars>>

\* A call of Bucket.WaitUntilReady.
CallWaitUntilReady ==
    /\ calls < MaxCalls
    /\ \E answer \in ManagerAnswers, waited \in WaitAnswers :
         LET r == WaitUntilReady(bootstrapError, answer, waited)
             asked == r.consulted /\ answer.err = "nil"
         IN /\ lastCall' = [fn |-> "WaitUntilReady",
                            answer |-> IF r.consulted THEN answer ELSE NoAnswer,
                            waited |-> IF asked THEN waited ELSE "nil",
                            agent |-> r.agent, err |-> r.err, consulted |-> r.consulted]
            /\ consults' = IF r.consulted THEN consults + 1 ELSE consults
    /\ calls' = calls + 1
    /\ UNCHANGED <<bootstrapError, bulkVars, retryVars>>

NextBucket ==
    \/ \E err \in BootstrapErrors \cup {"nil"} : setBootstrapError(err)
    \/ \E fn \in Providers : CallProvider(fn)
    \/ CallWaitUntilReady

\* ------------------------------------------------------------ specifications

\* No Bucket in use.
BucketAtRest == newBucket

\* The engine's specifications leave the retry loop at rest, and SpecRetry the
\* engine: no call of Do, no request.
RetryAtRest ==
    /\ req = newRetriableRequestPS(FALSE, [kind |-> "nil", calc |-> "none"])
    /\ rstate = "Completed"
    /\ now = 0
    /\ retryWait = -1
    /\ rctxErr = "none"
    /\ result = NoResult
    /\ trace = <<>>
    /\ dispatches = 0
    /\ timer = -1

BulkAtRest ==
    /\ InitBulk({[c \in Callers |-> <<>>]})

\* The dispatch engine, two concurrent batches.
Init ==
    /\ InitBulk(BatchInputs)
    /\ RetryAtRest
    /\ BucketAtRest

Spec == Init /\ [][NextBulk]_vars

\* The dispatch engine on batches of operations, under the scheduler's
\* fairness: a goroutine that can run does, a remote call returns.
InitOps ==
    /\ InitBulk(OpInputs)
    /\ RetryAtRest
    /\ BucketAtRest

SpecFair == InitOps /\ [][NextBulk]_vars /\ WF_vars(NextBulkRun)

\* The dispatch engine, one batch of operations of any kinds.
InitKinds ==
    /\ InitBulk(KindInputs)
    /\ RetryAtRest
    /\ BucketAtRest

SpecKinds == InitKinds /\ [][NextBulk]_vars

\* The dispatch engine with the larger pool, one batch of operations.
InitPool ==
    /\ InitBulkOver(PoolInputs, LargerPool)
    /\ RetryAtRest
    /\ BucketAtRest

SpecPool == InitPool /\ [][NextBulk]_vars

\* The dispatch engine, one batch of operations and an empty one, each with
\* or without an opts.Timeout.
InitBudget ==
    /\ InitBulkWith(PoolInputs, Workers, Timeouts)
    /\ RetryAtRest
    /\ BucketAtRest

SpecBudget == InitBudget /\ [][NextBulk]_vars

\* The dispatch engine, one batch of reads, the service answering with
\* uncompressed content, compressed content or none.
InitContent ==
    /\ InitBulkFrom(ContentInputs, Workers, {0}, ServerContents)
    /\ RetryAtRest
    /\ BucketAtRest

SpecContent == InitContent /\ [][NextBulk]_vars

\* A Bucket as newBucket made it, its accessors called and its bootstrap
\* error set.
InitBucket ==
    /\ newBucket
    /\ BulkAtRest
    /\ RetryAtRest

SpecBucket == InitBucket /\ [][NextBucket]_vars

\* The retry loop of one request.
InitRetryLoop ==
    /\ InitRetry(Strategies)
    /\ BulkAtRest
    /\ BucketAtRest

SpecRetry == InitRetryLoop /\ [][NextRetry]_vars

\* The retry loop under fairness: a dispatch returns, time passes, the
\* request's context ends at some time, a timer that is due fires, and the
\* select, which picks at random among the cases that are ready, does not
\* leave the ctx.Done() case out for ever.
SpecRetryFair ==
    /\ InitRetryLoop
    /\ [][NextRetry]_vars
    /\ WF_vars(SendReturns)
    /\ WF_vars(WaitElapses)
    /\ WF_vars(TimerFires)
    /\ WF_vars(RequestCtxDone)
    /\ WF_vars(TimerExpires)
    /\ SF_vars(CtxFires)

\* -------------------------------------------------- dispatch engine: claims

\* A worker holds operation i of call c.
Held(c, i) == \E w \in Pool : wop[w] = <<c, i>>

\* C1: a call of Do on a batch of N operations returns, under fairness and
\* with remote calls that return, whatever N and the pool size, also with the
\* workers busy with another batch; when it has returned, finish() has run
\* exactly once on each of the N operations, and never twice on one. While a
\* call has not returned, some goroutine of the engine can take a step. (A
\* call that has returned stays so: eventually all the calls have returned.)
C1_DoReturnsAfterNFinishes ==
    /\ [](\A c \in Callers : \A i \in 1..Len(ops[c]) :
            /\ ops[c][i].finished <= 1
            /\ cpc[c] = "done" => ops[c][i].finished = 1)
    /\ []((\A c \in Callers : cpc[c] = "done") \/ ENABLED NextBulkRun)
    /\ <>(\A c \in Callers : cpc[c] = "done")

\* A call has returned from a batch larger than the pool, each operation
\* finished once.
C1_Witness ==
    \E c \in Callers :
        /\ cpc[c] = "done"
        /\ Len(ops[c]) > workerCount
        /\ \A i \in 1..Len(ops[c]) : ops[c][i].finished = 1

\* C2: a worker sends each operation it has taken, of any of the eleven
\* kinds and whatever the outcome, on the completion channel exactly once:
\* not before it is through with it, once when it is, and never twice; the
\* outcome of another item changes nothing to that.
C2_ExactlyOneSendPerItem ==
    \A c \in Callers : \A i \in 1..Len(ops[c]) :
        LET op == ops[c][i]
        IN /\ op.taken <= 1
           /\ op.sent <= 1
           /\ op.sent <= op.taken
           /\ Held(c, i) => op.sent = 0
           /\ (op.kind \in KnownKinds /\ op.taken = 1 /\ ~Held(c, i)) => op.sent = 1

\* Two items of one batch were each sent once, one after a failure (of the
\* codec or of the remote call), one after a success.
C2_Witness ==
    \E c \in Callers : \E i, j \in 1..Len(ops[c]) :
        /\ i # j
        /\ ops[c][i].Err # "nil" /\ ops[c][i].sent = 1
        /\ ops[c][j].Result # "nil" /\ ops[c][j].sent = 1
        /\ ~Held(c, i) /\ ~Held(c, j)

\* C3: Do returns nil for every batch, also when some or all of its items
\* failed: an item's failure is in its Err slot only.
C3_DoReturnsNil ==
    \A c \in Callers :
        /\ ret[c] \in {"none", "nil"}
        /\ cpc[c] = "done" => ret[c] = "nil"

\* Do has returned nil from a batch all of whose items failed.
C3_Witness ==
    \E c \in Callers :
        /\ cpc[c] = "done"
        /\ ret[c] = "nil"
        /\ Len(ops[c]) = MaxTotalOps
        /\ \A i \in 1..Len(ops[c]) : ops[c][i].Err # "nil"

\* C8: a call of Do whose context ended while it ran, at any point, returns
\* only when it has handed every operation to a worker and drained exactly N
\* completions, and no worker holds an item of the batch when it returns.
C8_CancelledBatchStillDrained ==
    \A c \in Callers :
        (cpc[c] = "done" /\ cancelledAt[c] >= 0) =>
            /\ pushed[c] = Len(ops[c])
            /\ drained[c] = Len(ops[c])
            /\ signal[c] = <<>>
            /\ \A i \in 1..Len(ops[c]) :
                 ops[c][i].taken = 1 /\ ops[c][i].finished = 1 /\ ~Held(c, i)

\* A call has returned whose context ended before all its operations had
\* been handed to a worker.
C8_Witness ==
    \E c \in Callers :
        /\ cpc[c] = "done"
        /\ cancelledAt[c] >= 0
        /\ cancelledAt[c] < Len(ops[c])
        /\ drained[c] = Len(ops[c])

\* C9: when the codec fails on an Upsert, Insert or Replace item, the item's
\* Err is the codec's error, no remote call is made for it and its Result
\* stays empty; it is sent and finished once like any other; the other items
\* of the batch have their remote call and their own outcome; Do returns nil.
C9_EncodeFailureIsPerItem ==
    \A c \in Callers : \A i \in 1..Len(ops[c]) :
        LET op == ops[c][i]
        IN /\ op.encoded # "none" => op.kind \in EncodingKinds
           /\ op.encoded = "err" =>
                /\ op.Err = "codecErr"
                /\ op.Result = "nil"
                /\ op.calls = 0
                /\ op.sent <= 1
                /\ ~Held(c, i) => op.sent = 1
           /\ (cpc[c] = "done" /\ (\E j \in 1..Len(ops[c]) : ops[c][j].encoded = "err")) =>
                /\ ret[c] = "nil"
                /\ op.finished = 1
                /\ op.encoded # "err" =>
                     /\ op.calls = 1
                     /\ (op.Result = "nil") # (op.Err = "nil")
                     /\ op.Err # "codecErr"

\* Do has returned from a batch of two items: the codec failed on one, the
\* other has its result.
C9_Witness ==
    \E c \in Callers : \E i, j \in 1..Len(ops[c]) :
        /\ cpc[c] = "done"
        /\ ops[c][i].kind \in {"InsertOp", "ReplaceOp"}
        /\ ops[c][i].encoded = "err"
        /\ ops[c][i].finished = 1
        /\ ops[c][j].Result # "nil"
        /\ ops[c][j].finished = 1

\* ----------------------------------------------- retry orchestrator: claims

\* The entries of trace for which retryOrchMaybeRetry was called.
Decided == {k \in 1..Len(trace) : trace[k].decided}

\* The reasons of the retried failures among the first n entries of trace, in
\* the order of their first occurrence.
RECURSIVE RetriedReasons(_)
RetriedReasons(n) ==
    IF n = 0 THEN <<>>
    ELSE LET before == RetriedReasons(n - 1)
             e == trace[n]
         IN IF e.decided /\ e.retry /\ ~(\E i \in 1..Len(before) : before[i] = e.outcome)
            THEN Append(before, e.outcome)
            ELSE before

\* C4: for a reason with AlwaysRetry() true, retryOrchMaybeRetry answers
\* retry, whatever the strategy (none, or one that declines), the
\* idempotency of the request and its attempt count: in every decision
\* taken, and in the decision the request would get now.
C4_AlwaysRetryReasonRetries ==
    /\ \A k \in Decided : AlwaysRetry(trace[k].outcome) => trace[k].retry
    /\ \A reason \in Reasons :
         AlwaysRetry(reason) => retryOrchMaybeRetry(req, reason, now).retry

\* A non-idempotent request with no strategy, or one that declines, was
\* retried for a reason that always retries, after earlier retries.
C4_Witness ==
    \E k \in Decided :
        /\ AlwaysRetry(trace[k].outcome)
        /\ trace[k].retry
        /\ trace[k].attemptsBefore >= 1
        /\ ~req.idempotent
        /\ req.strategy.kind \in {"nil", "NoRetry"}

\* C5: for a non-idempotent request and a reason that does not allow a
\* non-idempotent retry, BestEffortRetryStrategy.RetryAfter answers no
\* positive duration, with every calculator and attempt count; and when the
\* reason does not always retry either, the decision is not to retry.
C5_BestEffortDeclinesNonIdempotent ==
    ~req.idempotent =>
        /\ \A reason \in Reasons : \A calc \in Calculators :
             ~AllowsNonIdempotentRetry(reason)
                => ~(Duration(BestEffortRetryAfter(calc, req, reason)) > 0)
        /\ req.strategy.kind = "BestEffort" =>
             \A k \in Decided :
                (~AllowsNonIdempotentRetry(trace[k].outcome) /\ ~AlwaysRetry(trace[k].outcome))
                    => /\ ~trace[k].retry
                       /\ ~(Duration(trace[k].action) > 0)

\* A non-idempotent request under the default strategy was not retried for a
\* reason that does not allow it, after a retry.
C5_Witness ==
    \E k \in Decided :
        /\ ~req.idempotent
        /\ req.strategy = [kind |-> "BestEffort", calc |-> "exponential"]
        /\ ~AllowsNonIdempotentRetry(trace[k].outcome)
        /\ trace[k].attemptsBefore >= 1
        /\ ~trace[k].retry

\* C6: the attempt counter is the number of decisions that answered retry,
\* and the reason list holds the distinct reasons of those decisions, each
\* once, so that it is never longer than the counter.
C6_AttemptsAndDistinctReasons ==
    /\ req.attempts = Cardinality({k \in Decided : trace[k].retry})
    /\ req.reasons = RetriedReasons(Len(trace))
    /\ \A i, j \in 1..Len(req.reasons) : i # j => req.reasons[i] # req.reasons[j]
    /\ Len(req.reasons) <= req.attempts

\* Three retried failures, two of them for the same reason.
C6_Witness ==
    /\ req.attempts = 3
    /\ Len(req.reasons) = 2
    /\ trace[1].outcome = trace[3].outcome
    /\ trace[1].outcome # trace[2].outcome

\* The classified outcomes of the failed dispatches, in order.
Failures == [k \in 1..Len(trace) |-> trace[k].outcome]

C10_NoRetryCases ==
    /\ \A k \in Decided :
         (/\ ~AlwaysRetry(trace[k].outcome)
          /\ \/ req.strategy.kind = "nil"
             \/ trace[k].action.kind \in {"nil", "NoRetryRetryAction"}
             \/ Duration(trace[k].action) = 0)
         => ~trace[k].retry /\ trace[k].wake = -1
    /\ \A reason \in Reasons :
         LET d == retryOrchMaybeRetry(req, reason, now)
         IN (/\ ~AlwaysRetry(reason)
             /\ \/ req.strategy.kind = "nil"
                \/ d.action.kind \in {"nil", "NoRetryRetryAction"}
                \/ Duration(d.action) = 0)
            => ~d.retry /\ d.req = req

\* An idempotent request was not retried because its strategy answered an
\* action of duration zero.
C10_Witness ==
    \E k \in Decided :
        /\ req.idempotent
        /\ trace[k].action.kind = "WithDurationRetryAction"
        /\ trace[k].action.WithDuration = 0
        /\ ~trace[k].retry
        /\ rstate = "Failed"

\* C11: for a reason that does not always retry and a request that has a
\* strategy, retryOrchMaybeRetry answers retry exactly when the duration of
\* the strategy's action is strictly positive; the wake time is then the
\* decision time plus that duration, and never before the decision time.
C11_RetryIffPositiveDuration ==
    \A k \in Decided :
        (~AlwaysRetry(trace[k].outcome) /\ req.strategy.kind # "nil") =>
            /\ trace[k].retry <=> Duration(trace[k].action) > 0
            /\ trace[k].retry =>
                 /\ trace[k].wake = trace[k].at + Duration(trace[k].action)
                 /\ trace[k].wake >= trace[k].at

\* C12: BestEffortRetryStrategy.RetryAfter answers an action whose duration
\* is BackoffCalculator(req.RetryAttempts()) exactly when the request is
\* idempotent or the reason allows a non-idempotent retry, and a
\* NoRetryRetryAction otherwise. Under the default calculator, which is
\* positive for every attempt count, an idempotent request is retried on every
\* failure that has a retry reason, and never ends Failed while all its
\* failures have one.
C12_BestEffortRetriesIdempotentOrAllowed ==
    req.strategy.kind = "BestEffort" =>
        /\ \A k \in Decided :
             ~AlwaysRetry(trace[k].outcome) =>
                IF req.idempotent \/ AllowsNonIdempotentRetry(trace[k].outcome)
                THEN /\ trace[k].action.kind = "WithDurationRetryAction"
                     /\ trace[k].action.WithDuration
                            = BackoffCalculator(req.strategy.calc, trace[k].attemptsBefore)
                ELSE trace[k].action = NoRetryRetryAction
        /\ (req.idempotent /\ req.strategy.calc = "exponential") =>
             /\ \A k \in Decided : trace[k].retry
             /\ (\A k \in 1..Len(trace) : trace[k].decided)
                    => rstate \in {"Dispatching", "Retrying", "Completed", "TimedOut", "Cancelled"}

\* An idempotent request under the default strategy waits for its third
\* retry, one of them for a reason that does not allow a non-idempotent retry.
C12_Witness ==
    /\ req.idempotent
    /\ req.strategy = [kind |-> "BestEffort", calc |-> "exponential"]
    /\ rstate = "Retrying"
    /\ Len(trace) = 3
    /\ \A k \in 1..Len(trace) : trace[k].decided /\ trace[k].retry
    /\ \E k \in 1..Len(trace) : ~AllowsNonIdempotentRetry(trace[k].outcome)

\* C13: when a dispatch fails with an error that is ErrTimeout, the request
\* ends TimedOut at once: neither retryReasonFn nor retryOrchMaybeRetry is
\* called for that failure, and the TimeoutError returned has the raw error
\* as inner cause, the operation name, the identifier, and the reason list and
\* attempt count of the request as the earlier retries left them.
C13_TimeoutEndsWithoutDecision ==
    \A k \in 1..Len(trace) :
        trace[k].outcome = "timeout" =>
            /\ k = Len(trace)
            /\ rstate = "TimedOut"
            /\ ~trace[k].classified
            /\ ~trace[k].decided
            /\ result.kind = "TimeoutError"
            /\ result.InnerError = "rawErr"
            /\ result.OperationID = req.operation
            /\ result.Opaque = req.identifier
            /\ result.RetryReasons = req.reasons
            /\ result.RetryAttempts = req.attempts
            /\ req.attempts = trace[k].attemptsBefore
            /\ result.RetryAttempts = Cardinality({j \in Decided : trace[j].retry})
            /\ result.RetryReasons = RetriedReasons(k - 1)

\* The third dispatch of a request timed out, after two retries for two
\* reasons.
C13_Witness ==
    /\ Len(trace) = 3
    /\ trace[3].outcome = "timeout"
    /\ result.RetryAttempts = 2
    /\ Len(result.RetryReasons) = 2

\* C14: when the context ends the backoff wait: for a deadline that has
\* passed the request ends TimedOut with a TimeoutError whose inner cause is
\* ErrUnambiguousTimeout and whose attempt count and reasons are the
\* request's, the retry just recorded included; for any other cause it ends
\* Cancelled with the generic ErrRequestCanceled error, which has no attempt
\* count and no reasons. The wait ends in no other way but the timer's.
C14_ContextEndsBackoff ==
    [][(rstate = "Retrying" /\ rstate' \notin {"Retrying", "Dispatching"}) =>
          LET last == trace[Len(trace)]
          IN /\ rctxErr # "none"
             /\ last.decided /\ last.retry
             /\ IF rctxErr = "deadline"
                THEN /\ rstate' = "TimedOut"
                     /\ result' = [kind |-> "TimeoutError",
                                   InnerError |-> "ErrUnambiguousTimeout",
                                   OperationID |-> req.operation,
                                   Opaque |-> req.identifier,
                                   TimeObserved |-> now,
                                   RetryReasons |-> req.reasons,
                                   RetryAttempts |-> req.attempts]
                     /\ req.attempts = last.attemptsBefore + 1
                     /\ \E i \in 1..Len(req.reasons) : req.reasons[i] = last.outcome
                ELSE /\ rstate' = "Cancelled"
                     /\ result'.kind = "ErrRequestCanceled"
                     /\ result'.RetryAttempts = 0
                     /\ result'.RetryReasons = <<>>
                     /\ result'.InnerError = "none"]_vars

\* A request cancelled while it waited for its second retry.
C14_Witness ==
    /\ rstate = "Cancelled"
    /\ result = CanceledError
    /\ rctxErr = "canceled"
    /\ req.attempts = 2

\* C15: once the request's context is done while the request is in the
\* backoff wait, also when the timer has expired as well or the wake time was
\* already past when the wait started, the request leaves the wait only to
\* TimedOut or Cancelled, and makes no further dispatch.
C15_CancellationPreemptsBackoff ==
    [][(rstate = "Retrying" /\ rctxErr # "none") =>
          /\ rstate' \in {"Retrying", "TimedOut", "Cancelled"}
          /\ dispatches' = dispatches]_vars

\* The dispatches of the request that have returned.
Returned == Len(trace) + (IF result.kind = "value" THEN 1 ELSE 0)

\* The dispatches of the request that are in flight.
InFlight == dispatches - Returned

\* C16: the attempts of one request are strictly sequential: at most one
\* dispatch is in flight at any time, and a new dispatch starts only when the
\* previous one has returned, has been answered by a decision to retry, and
\* the backoff wait has ended.
C16_AttemptsSequential ==
    /\ [](InFlight \in {0, 1} /\ (InFlight = 1 <=> rstate = "Dispatching"))
    /\ [][dispatches' # dispatches =>
            /\ dispatches' = dispatches + 1
            /\ InFlight = 0
            /\ rstate = "Retrying"
            /\ trace[Len(trace)].retry
            /\ now >= retryWait
            /\ retryWait = trace[Len(trace)].wake]_vars

\* The fourth dispatch of a request is in flight.
C16_Witness ==
    /\ dispatches = 4
    /\ rstate = "Dispatching"
    /\ InFlight = 1

\* C17: the retry loop moves from Dispatching to Completed, Failed, TimedOut
\* or Retrying only, and from Retrying to Dispatching, TimedOut or Cancelled
\* only; in Completed, Failed, TimedOut and Cancelled the request stays, with
\* no further dispatch and no change of its attempt counter, its reason list
\* or the value returned.
C17_StateMachine ==
    /\ [](rstate \in {"Dispatching", "Retrying"} \cup Terminal)
    /\ [][/\ rstate = "Dispatching" =>
               rstate' \in {"Dispatching", "Completed", "Failed", "TimedOut", "Retrying"}
          /\ rstate = "Retrying" =>
               rstate' \in {"Retrying", "Dispatching", "TimedOut", "Cancelled"}
          /\ rstate \in Terminal =>
               /\ rstate' = rstate
               /\ dispatches' = dispatches
               /\ req'.attempts = req.attempts
               /\ req'.reasons = req.reasons
               /\ result' = result]_vars

\* A request went Dispatching, Retrying, Dispatching, Retrying and was then
\* ended by its deadline.
C17_Witness ==
    /\ rstate = "TimedOut"
    /\ dispatches = 2
    /\ Len(trace) = 2
    /\ trace[1].retry /\ trace[2].retry
    /\ result.InnerError = "ErrUnambiguousTimeout"

\* ------------------------------------------- dispatch engine: further claims

\* C18: the pool and its queue are made once, however many calls of Do there
\* are and also when the first calls race: initWorkers is run by one caller
\* only, the workers started number _workerCount in all, no call gets past
\* the Once, and so none pushes, before the queue is made and the workers are
\* started, and once made the queue and the workers stay as they are.
C18_PoolCreatedOnce ==
    /\ [](/\ started \in {0, workerCount}
          /\ Cardinality({c \in Callers : cpc[c] = "init"}) <= 1
          /\ once = "done" <=> (workerChan = "open" /\ started = workerCount)
          /\ \A c \in Callers :
               (cpc[c] \in {"setup", "push", "drain", "done"} \/ pushed[c] > 0) =>
                  /\ once = "done"
                  /\ workerChan = "open"
                  /\ started = workerCount
                  /\ \A w \in Pool : wpc[w] # "none")
    /\ [][workerChan = "open" =>
            /\ workerChan' = "open"
            /\ started' = started
            /\ once' = "done"
            /\ Pool' = Pool
            /\ \A w \in Pool : wpc'[w] # "none"]_vars

\* Both calls of Do have pushed a batch and returned; the workers were
\* started once.
C18_Witness ==
    /\ \A c \in Callers : cpc[c] = "done" /\ pushed[c] >= 1
    /\ started = workerCount
    /\ once = "done"

\* C19: the completion channel of a batch has capacity len(ops) and never
\* holds more than len(ops) completions, so a worker that is to send a
\* completion finds room in the buffer, whether the submitter is still
\* pushing, has not started to drain, or drains slowly.
C19_CompletionSendNeverBlocks ==
    /\ \A c \in Callers :
         /\ signalCap[c] \in {-1, Len(ops[c])}
         /\ cpc[c] \in {"push", "drain", "done"} => signalCap[c] = Len(ops[c])
         /\ Len(signal[c]) <= Len(ops[c])
         /\ Len(signal[c]) + drained[c] <= pushed[c]
    /\ \A w \in Pool :
         wpc[w] = "send" =>
            /\ Len(signal[wop[w][1]]) < signalCap[wop[w][1]]
            /\ ENABLED Send(w)

\* The buffer of a batch of MaxTotalOps operations is full: every completion
\* was sent before the submitter received one.
C19_Witness ==
    \E c \in Callers :
        /\ Len(ops[c]) = MaxTotalOps
        /\ Len(signal[c]) = Len(ops[c])
        /\ drained[c] = 0

\* The slots of an operation that its method writes.
Slots(op) == <<op.Result, op.Err, op.finishFn, op.encoded, op.calls>>

\* The workers that hold operation i of call c.
Holders(c, i) == {w \in Pool : wop[w] = <<c, i>>}

\* C20: each operation of a batch is taken from the queue by one worker, once;
\* its slots and its callback are written by the worker that holds it and by
\* nobody else, before that worker sends it; the submitter receives it and
\* calls finish() only when it has been sent and no worker holds it any more;
\* so at no time do two workers, or a worker and the submitter, have the same
\* operation.
C20_OneOwnerPerOperation ==
    /\ [](\A c \in Callers : \A i \in 1..Len(ops[c]) :
            LET op == ops[c][i]
            IN /\ op.taken <= 1
               /\ Cardinality(Holders(c, i)) <= 1
               /\ op.taken = 0 => (Holders(c, i) = {} /\ op.sent = 0 /\ Slots(op) = Slots(NewOp(op.kind)))
               /\ Holders(c, i) # {} => (op.taken = 1 /\ op.sent = 0 /\ op.finished = 0)
               /\ op.sent <= 1
               /\ op.finished <= op.sent)
    /\ [][\A c \in Callers : \A i \in 1..Len(ops[c]) :
            /\ Slots(ops'[c][i]) # Slots(ops[c][i]) =>
                 /\ Cardinality(Holders(c, i)') = 1
                 /\ Holders(c, i) \subseteq Holders(c, i)'
                 /\ ops[c][i].sent = 0 /\ ops'[c][i].sent = 0
                 /\ ops[c][i].finished = 0
            /\ ops'[c][i].finished # ops[c][i].finished =>
                 /\ ops[c][i].sent = 1
                 /\ Holders(c, i) = {}
                 /\ Head(signal[c]) = i
                 /\ Slots(ops'[c][i]) = Slots(ops[c][i])]_vars

\* Two workers each hold an operation of the same batch at the same time,
\* and each has written to the one it holds.
C20_Witness ==
    \E c \in Callers : \E i, j \in 1..Len(ops[c]) :
        /\ i # j
        /\ Holders(c, i) # {} /\ Holders(c, j) # {}
        /\ Holders(c, i) # Holders(c, j)
        /\ ops[c][i].calls = 1
        /\ ops[c][j].encoded # "none"

\* ------------------------------------- retry orchestrator: further claims

\* C22: every failure handleRetriableRequest returns, be it the timeout of a
\* dispatch, the timeout of a backoff wait, a failure with no retry reason or
\* a failure the strategy declined to retry, has the request's identifier,
\* the time elapsed since its creation and the distinct reasons of its
\* retries.
C22_FailuresCarryRetryHistory ==
    rstate \in {"Failed", "TimedOut"} =>
        /\ result.Opaque = req.identifier
        /\ result.TimeObserved = now
        /\ result.RetryReasons = req.reasons

\* The attempt counter after the decision of entry k of trace.
AttemptsAfter(k) ==
    IF k < Len(trace) THEN trace[k + 1].attemptsBefore ELSE req.attempts

\* C24: when a dispatch fails with an error that is not a timeout and for
\* which retryReasonFn answers nil, handleRetriableRequest returns the
\* classified error at once: retryOrchMaybeRetry is not called, the attempt
\* counter and the reason list stay as the earlier retries left them, and the
\* failed dispatch is the last.
C24_UnclassifiedFailureReturnsAtOnce ==
    \A k \in 1..Len(trace) :
        trace[k].outcome = "noReason" =>
            /\ k = Len(trace)
            /\ rstate = "Failed"
            /\ trace[k].classified
            /\ ~trace[k].decided
            /\ result.kind = "gocbErr"
            /\ result.InnerError = "noReason"
            /\ req.attempts = trace[k].attemptsBefore
            /\ req.attempts = Cardinality({j \in Decided : trace[j].retry})
            /\ req.reasons = RetriedReasons(k - 1)
            /\ dispatches = k

\* The third dispatch of a request failed with no retry reason, after two
\* retries.
C24_Witness ==
    /\ Len(trace) = 3
    /\ trace[3].outcome = "noReason"
    /\ rstate = "Failed"
    /\ req.attempts = 2

\* C25: for a reason that always retries the strategy is not asked: the wake
\* time is the decision time plus ControlledBackoff of the attempt count as
\* it was before the decision, the attempt is recorded once, and requests
\* that differ in their strategy only get the same decision.
C25_AlwaysRetryIgnoresStrategy ==
    /\ \A k \in Decided :
         AlwaysRetry(trace[k].outcome) =>
            /\ trace[k].retry
            /\ trace[k].action = NotAsked
            /\ trace[k].wake = trace[k].at + ControlledBackoff(trace[k].attemptsBefore)
            /\ AttemptsAfter(k) = trace[k].attemptsBefore + 1
    /\ \A reason \in Reasons : \A strategy \in Strategies :
         AlwaysRetry(reason) =>
            LET mine == retryOrchMaybeRetry(req, reason, now)
                other == retryOrchMaybeRetry([req EXCEPT !.strategy = strategy], reason, now)
            IN /\ other.retry = mine.retry
               /\ other.wake = mine.wake
               /\ other.action = mine.action
               /\ other.req.attempts = mine.req.attempts
               /\ other.req.reasons = mine.req.reasons
               /\ other.req.strategy = strategy

\* A request under a strategy that declines was retried a second time for a
\* reason that always retries, with the backoff of one earlier attempt.
C25_Witness ==
    \E k \in Decided :
        /\ req.strategy.kind = "NoRetry"
        /\ AlwaysRetry(trace[k].outcome)
        /\ trace[k].attemptsBefore = 1
        /\ trace[k].wake = trace[k].at + 10
        /\ rstate = "Retrying"

\* C26: a decision of retryOrchMaybeRetry not to retry leaves the attempt
\* counter and the reason list as they were; a decision to retry adds one to
\* the counter and appends the reason if the list has it not, and changes
\* nothing else; the identifier, the operation name, the idempotency flag and
\* the strategy of a request never change.
C26_DecisionFrame ==
    /\ [](\A reason \in Reasons :
            LET d == retryOrchMaybeRetry(req, reason, now)
                known == \E i \in 1..Len(req.reasons) : req.reasons[i] = reason
            IN /\ d.req.identifier = req.identifier
               /\ d.req.operation = req.operation
               /\ d.req.idempotent = req.idempotent
               /\ d.req.strategy = req.strategy
               /\ ~d.retry => d.req = req
               /\ d.retry =>
                    /\ d.req.attempts = req.attempts + 1
                    /\ d.req.reasons = IF known THEN req.reasons ELSE Append(req.reasons, reason))
    /\ [][/\ req'.identifier = req.identifier
          /\ req'.operation = req.operation
          /\ req'.idempotent = req.idempotent
          /\ req'.strategy = req.strategy
          /\ req' # req =>
               LET last == trace'[Len(trace')]
               IN /\ last.decided /\ last.retry
                  /\ req'.attempts = req.attempts + 1
                  /\ SubSeq(req'.reasons, 1, Len(req.reasons)) = req.reasons
                  /\ Len(req'.reasons) =
                        IF \E i \in 1..Len(req.reasons) : req.reasons[i] = last.outcome
                        THEN Len(req.reasons) ELSE Len(req.reasons) + 1
                  /\ req'.reasons[Len(req'.reasons)] \in Reasons
          /\ (Len(trace') > Len(trace) /\ ~trace'[Len(trace')].retry) => req' = req]_vars

\* A request was retried twice for the same reason, and then not retried for
\* another: two attempts, one reason.
C26_Witness ==
    /\ Len(trace) = 3
    /\ trace[1].retry /\ trace[2].retry
    /\ trace[2].outcome = trace[1].outcome
    /\ trace[3].decided /\ ~trace[3].retry
    /\ trace[3].outcome # trace[1].outcome
    /\ req.attempts = 2
    /\ req.reasons = <<trace[1].outcome>>

\* The backoff computed by the decision of entry e of trace.
Backoff(e) ==
    IF AlwaysRetry(e.outcome) THEN ControlledBackoff(e.attemptsBefore) ELSE Duration(e.action)

\* C28: after a decision to retry, the next dispatch does not start before
\* the wake time computed (the decision time plus the backoff) has come: the
\* loop stays suspended while neither the wake time has come nor the context
\* is done, it leaves the wait for a dispatch only by the timer, and the
\* context ends the wait without a dispatch.
C28_NoDispatchBeforeWakeTime ==
    /\ [](rstate = "Retrying" =>
            LET last == trace[Len(trace)]
            IN /\ last.decided /\ last.retry
               /\ retryWait = last.at + Backoff(last)
               /\ ENABLED TimerFires <=> now >= retryWait
               /\ ENABLED CtxFires <=> rctxErr # "none"
               /\ (now < retryWait /\ rctxErr = "none") => ~ENABLED SendReturns)
    /\ [][(rstate = "Retrying" /\ rstate' # "Retrying") =>
            LET last == trace[Len(trace)]
            IN IF rstate' = "Dispatching"
               THEN /\ now >= last.at + Backoff(last)
                    /\ dispatches' = dispatches + 1
               ELSE /\ rctxErr # "none"
                    /\ dispatches' = dispatches]_vars

\* The second dispatch of a request started when the backoff of its first
\* failure, one millisecond, had passed.
C28_Witness ==
    /\ dispatches = 2
    /\ rstate = "Dispatching"
    /\ Len(trace) = 1
    /\ Backoff(trace[1]) = 1
    /\ now = trace[1].at + 1

\* ------------------------------------------- dispatch engine: more claims

\* C21: the engine makes at most one remote call for an item of a batch,
\* whatever the call answers, and none when the encoding of the item fails:
\* an item that has been handed back was called once, or not at all if its
\* encoding failed, and its failure, of whatever class, is in its Err slot.
C21_NoRetryOfBulkItems ==
    \A c \in Callers : \A i \in 1..Len(ops[c]) :
        LET op == ops[c][i]
        IN /\ op.calls <= 1
           /\ op.encoded = "err" => op.calls = 0
           /\ op.calls <= op.taken
           /\ op.sent = 1 => op.calls = (IF op.encoded = "err" THEN 0 ELSE 1)
           /\ (op.calls = 1 /\ op.Result = "nil") => op.Err = MappedErr(op.kind)
           /\ \A w \in Holders(c, i) : wpc[w] = "call" => op.calls = 0

\* Do has returned from a batch one item of which failed in its one remote
\* call, and one in its encoding, with no call.
C21_Witness ==
    \E c \in Callers : \E i, j \in 1..Len(ops[c]) :
        /\ cpc[c] = "done"
        /\ ops[c][i].Err = MappedErr(ops[c][i].kind)
        /\ ops[c][i].calls = 1
        /\ ops[c][j].Err = "codecErr"
        /\ ops[c][j].calls = 0

\* C27: an item reported as completed has exactly one of its two slots
\* written: Result, of the type of its kind, when the remote call succeeded,
\* and Err when the encoding or the remote call failed, the other slot as the
\* caller left it; and a slot that has been written is not written again.
C27_ExactlyOneSlotWritten ==
    /\ [](\A c \in Callers : \A i \in 1..Len(ops[c]) :
            LET op == ops[c][i]
            IN /\ op.Result = "nil" \/ op.Err = "nil"
               /\ op.Result # "nil" => (op.Result = ResultOf(op.kind) /\ op.calls = 1)
               /\ op.Err # "nil" =>
                    \/ op.Err = "codecErr" /\ op.encoded = "err" /\ op.calls = 0
                    \/ op.Err = MappedErr(op.kind) /\ op.calls = 1
               /\ op.sent = 1 => (op.Result = "nil") # (op.Err = "nil"))
    /\ [][\A c \in Callers : \A i \in 1..Len(ops[c]) :
            /\ ops[c][i].Result # "nil" => ops'[c][i].Result = ops[c][i].Result
            /\ ops[c][i].Err # "nil" => ops'[c][i].Err = ops[c][i].Err
            /\ (ops[c][i].Result # "nil" \/ ops[c][i].Err # "nil") =>
                 (ops'[c][i].Result = ops[c][i].Result /\ ops'[c][i].Err = ops[c][i].Err)]_vars

\* Do has returned from a batch with a counter item that has its result and
\* another item that has its error.
C27_Witness ==
    \E c \in Callers : \E i, j \in 1..Len(ops[c]) :
        /\ cpc[c] = "done"
        /\ ops[c][i].kind \in {"IncrementOp", "DecrementOp"}
        /\ ops[c][i].Result = "CounterResult" /\ ops[c][i].Err = "nil"
        /\ ops[c][j].Err # "nil" /\ ops[c][j].Result = "nil"

\* C29: the queue is unbuffered: a call of Do in its push loop can hand over
\* its next operation exactly when a worker is waiting on the queue, and
\* then does; the operations of a batch are handed over one at a time, in the
\* order of the batch, each to one worker; and the call receives no
\* completion before it has handed over its last operation.
C29_UnbufferedQueueBackpressure ==
    /\ [](\A c \in Callers :
            /\ cpc[c] = "push" =>
                 /\ pushed[c] < Len(ops[c])
                 /\ drained[c] = 0
                 /\ (\E w \in Pool : ENABLED Dispatch(c, w)) <=> (\E w \in Pool : wpc[w] = "idle")
            /\ drained[c] > 0 => pushed[c] = Len(ops[c])
            /\ \A i \in 1..Len(ops[c]) : ops[c][i].taken = (IF i <= pushed[c] THEN 1 ELSE 0))
    /\ [][\A c \in Callers :
            pushed'[c] # pushed[c] =>
                /\ pushed'[c] = pushed[c] + 1
                /\ \E w \in Pool :
                     /\ wpc[w] = "idle"
                     /\ wpc'[w] # "idle" => wop'[w] = <<c, pushed'[c]>>
                     /\ \A v \in Pool \ {w} : wpc'[v] = wpc[v] /\ wop'[v] = wop[v]
                /\ drained'[c] = 0]_vars

\* A call of Do is blocked in its push loop: it has handed over its first
\* operation, and every worker is busy.
C29_Witness ==
    \E c \in Callers :
        /\ cpc[c] = "push"
        /\ pushed[c] >= 1
        /\ \A w \in Pool : wpc[w] \in {"encode", "call", "send"}
        /\ ~(\E w \in Pool : ENABLED Dispatch(c, w))
        /\ Holders(c, 1) # {}

\* C30: every entry a worker takes from the queue is executed by the method
\* of its kind; an entry that is of none of the eleven kinds, such as nil, is
\* not dropped: once no worker holds it, it has been sent on the completion
\* channel, so that a call of Do never waits for a completion nobody is to
\* send.
C30_NoEntryDropped ==
    \A c \in Callers :
        /\ \A i \in 1..Len(ops[c]) :
             (ops[c][i].taken = 1 /\ Holders(c, i) = {}) => ops[c][i].sent = 1
        /\ ~(/\ cpc[c] = "drain"
             /\ drained[c] < Len(ops[c])
             /\ signal[c] = <<>>
             /\ \A i \in 1..Len(ops[c]) : Holders(c, i) = {})

\* C23: the timeout of a batch's context is opts.Timeout when that is not
\* zero, and else the default KV timeout times the number of operations;
\* every entry of the batch is pushed with that one context. For an empty
\* batch with no opts.Timeout the timeout is zero, and Do pushes nothing,
\* waits for nothing and returns nil.
C23_BatchDeadlineBudget ==
    \A c \in Callers :
        /\ cpc[c] \in {"start", "init", "setup"} => timeout[c] = -1
        /\ cpc[c] \in {"push", "drain", "done"} =>
             timeout[c] = (IF optsTimeout[c] # 0 THEN optsTimeout[c]
                           ELSE KVTimeout * Len(ops[c]))
        /\ \A i \in 1..Len(ops[c]) :
             ops[c][i].ctx = (IF ops[c][i].taken = 1 THEN timeout[c] ELSE -1)
        /\ Len(ops[c]) = 0 =>
             /\ cpc[c] # "push"
             /\ pushed[c] = 0 /\ drained[c] = 0 /\ signal[c] = <<>>
             /\ cpc[c] = "drain" => ENABLED DoReturn(c)
             /\ cpc[c] = "done" => ret[c] = "nil"
             /\ (optsTimeout[c] = 0 /\ cpc[c] \in {"drain", "done"}) => timeout[c] = 0

\* A batch of MaxTotalOps operations with no opts.Timeout has run to its end,
\* each operation pushed with the default timeout times MaxTotalOps, and an
\* empty batch with no opts.Timeout has returned nil.
C23_Witness ==
    \E c, e \in Callers :
        /\ Len(ops[c]) = MaxTotalOps
        /\ optsTimeout[c] = 0
        /\ cpc[c] = "done"
        /\ \A i \in 1..Len(ops[c]) : ops[c][i].ctx = KVTimeout * MaxTotalOps
        /\ Len(ops[e]) = 0
        /\ optsTimeout[e] = 0
        /\ cpc[e] = "done"
        /\ timeout[e] = 0
        /\ ret[e] = "nil"

\* ------------------------------------- retry orchestrator: last claims

\* C31: once handleRetriableRequest has returned, no timer of a backoff wait
\* is pending any more; in particular none is left by a wait that the
\* context ended.
C31_NoTimerLeftPending ==
    rstate \in Terminal => timer = -1

\* ---------------------------------------------- dispatch engine: last claims

\* The workers that are running: started and not returned.
Live == {w \in Pool : wpc[w] # "none"}

\* C32: the pool is never torn down. Once initWorkers has run, the queue
\* stays open and the workers started stay alive, as many as were started;
\* each of them waits on the queue holding nothing, or executes the one
\* operation it holds; and a worker that has sent an item, failed or not,
\* reads the queue again.
C32_PoolNeverTornDown ==
    /\ [](once = "done" =>
            /\ workerChan = "open"
            /\ Live = Pool
            /\ started = Cardinality(Live)
            /\ \A w \in Pool :
                 /\ wpc[w] \in {"idle", "encode", "call", "send"}
                 /\ wpc[w] = "idle" <=> wop[w] = <<>>
                 /\ wpc[w] # "idle" =>
                      /\ wop[w][1] \in Callers
                      /\ wop[w][2] \in 1..Len(ops[wop[w][1]])
                      /\ ops[wop[w][1]][wop[w][2]].sent = 0)
    /\ [][/\ workerChan = "open" => workerChan' = "open"
          /\ once = "done" => (once' = "done" /\ started' = started)
          /\ \A w \in Pool :
               (wpc[w] = "send" /\ wpc'[w] # "send") =>
                   (wpc'[w] = "idle" /\ wop'[w] = <<>>)]_vars

\* Every worker of the pool reads the queue again after it has completed a
\* batch with an operation that failed and one that succeeded.
C32_Witness ==
    /\ once = "done"
    /\ \A w \in Pool : wpc[w] = "idle"
    /\ \E c \in Callers :
         /\ \E i \in 1..Len(ops[c]) : ops[c][i].sent = 1 /\ ops[c][i].Err # "nil"
         /\ \E i \in 1..Len(ops[c]) : ops[c][i].sent = 1 /\ ops[c][i].Result # "nil"

\* C33: the error of a failed remote call is classified as that of an
\* idempotent operation for Get only, and as that of a non-idempotent one for
\* the ten other kinds; the classified error is what the item's Err slot
\* holds, and an item whose call succeeded has no error.
C33_OnlyGetIsIdempotent ==
    \A c \in Callers : \A i \in 1..Len(ops[c]) :
        LET op == ops[c][i]
        IN /\ (op.calls = 1 /\ op.Result = "nil") =>
                op.Err = (IF op.kind = "GetOp" THEN "gocbErrIdempotent"
                          ELSE "gocbErrNonIdempotent")
           /\ op.Err \in {"gocbErrIdempotent", "gocbErrNonIdempotent"} =>
                (op.calls = 1 /\ op.Result = "nil")
           /\ op.Err = "gocbErrIdempotent" => op.kind = "GetOp"
           /\ (op.calls = 1 /\ op.Result # "nil") => op.Err = "nil"

\* A batch has completed in which a Get failed and was classified as
\* idempotent, and an operation of another kind failed and was classified as
\* non-idempotent.
C33_Witness ==
    \E c \in Callers : \E i, j \in 1..Len(ops[c]) :
        /\ cpc[c] = "done"
        /\ ops[c][i].kind = "GetOp"
        /\ ops[c][i].Err = "gocbErrIdempotent"
        /\ ops[c][j].kind \in KnownKinds \ {"GetOp"}
        /\ ops[c][j].calls = 1
        /\ ops[c][j].Err = "gocbErrNonIdempotent"

\* C34: the bytes in the result of a Get or a GetAndTouch that succeeded are
\* the bytes of the response, for uncompressed content and for compressed
\* content alike; the item has a GetResult and no error. Nothing else writes
\* the bytes of a result.
C34_ContentPassedThrough ==
    \A c \in Callers : \A i \in 1..Len(ops[c]) :
        LET op == ops[c][i]
        IN /\ (op.kind \in {"GetOp", "GetAndTouchOp"} /\ op.calls = 1 /\ op.Err = "nil") =>
                /\ op.served \in kvContent
                /\ op.contents = op.served.bytes
                /\ op.Result = "GetResult"
           /\ op.served.type \in {"ContentUncompressed", "ContentCompressed"} =>
                /\ op.kind \in {"GetOp", "GetAndTouchOp"}
                /\ op.contents = op.served.bytes
                /\ op.contents # <<>>
                /\ op.Result = "GetResult"
                /\ op.Err = "nil"
           /\ (op.kind \notin {"GetOp", "GetAndTouchOp"} \/ op.calls = 0 \/ op.Err # "nil") =>
                (op.contents = <<>> /\ op.served.type = "nil")

\* A batch has completed in which a Get was answered with compressed content
\* and a GetAndTouch with uncompressed content, each result holding the
\* bytes of its response.
C34_Witness ==
    \E c \in Callers : \E i, j \in 1..Len(ops[c]) :
        /\ cpc[c] = "done"
        /\ ops[c][i].kind = "GetOp"
        /\ ops[c][i].served.type = "ContentCompressed"
        /\ ops[c][i].contents = <<9, 7>>
        /\ ops[c][i].Err = "nil"
        /\ ops[c][j].kind = "GetAndTouchOp"
        /\ ops[c][j].served.type = "ContentUncompressed"
        /\ ops[c][j].contents = <<7>>
        /\ ops[c][j].Err = "nil"

\* The operations of call c that have been sent on a completion channel, and
\* those that Do has finished.
SentOf(c) == {i \in 1..Len(ops[c]) : ops[c][i].sent = 1}

FinishedOf(c) == {i \in 1..Len(ops[c]) : ops[c][i].finished = 1}

\* C35: with several batches in flight on the one pool, the completion
\* channel of a call of Do holds operations of its own batch only, each one
\* sent and not yet finished, none twice; the completions a call has counted
\* are those of its own operations that it has finished, and with those in
\* its channel they are all of its operations that were sent; a step finishes
\* operations of the batch of the call that takes it only; and a call that
\* has returned has counted len(ops) completions, all its own.
C35_CompletionsGoToOwnBatch ==
    /\ [](\A c \in Callers :
            /\ \A k \in 1..Len(signal[c]) :
                 /\ signal[c][k] \in SentOf(c) \ FinishedOf(c)
                 /\ \A l \in 1..Len(signal[c]) : signal[c][l] = signal[c][k] => l = k
            /\ drained[c] = Cardinality(FinishedOf(c))
            /\ drained[c] + Len(signal[c]) = Cardinality(SentOf(c))
            /\ \A i \in 1..Len(ops[c]) : ops[c][i].finished <= ops[c][i].sent
            /\ cpc[c] = "done" =>
                 (drained[c] = Len(ops[c]) /\ FinishedOf(c) = 1..Len(ops[c])))
    /\ [][\A c \in Callers :
            /\ drained'[c] \in {drained[c], drained[c] + 1}
            /\ drained'[c] = drained[c] <=> FinishedOf(c)' = FinishedOf(c)
            /\ drained'[c] = drained[c] + 1 =>
                 /\ signal[c] # <<>>
                 /\ FinishedOf(c)' = FinishedOf(c) \cup {Head(signal[c])}
                 /\ signal'[c] = Tail(signal[c])
                 /\ \A d \in Callers \ {c} : signal'[d] = signal[d] /\ drained'[d] = drained[d]
            /\ Len(signal'[c]) > Len(signal[c]) =>
                 \E w \in Pool :
                     /\ wpc[w] = "send"
                     /\ wop[w][1] = c
                     /\ signal'[c] = Append(signal[c], wop[w][2])]_vars

\* Two batches are in flight at once, a completion of each waiting in its
\* own channel.
C35_Witness ==
    /\ \A c \in Callers : signal[c] # <<>> /\ cpc[c] = "drain"
    /\ \A c \in Callers : \A k \in 1..Len(signal[c]) : ops[c][signal[c][k]].sent = 1

C37_BackoffOfAttemptsBefore ==
    \A k \in Decided :
        LET e == trace[k]
        IN /\ e.attemptsBefore = k - 1
           /\ \A j \in 1..(k - 1) : trace[j].decided /\ trace[j].retry
           /\ AlwaysRetry(e.outcome) =>
                e.wake = e.at + ControlledBackoff(k - 1)
           /\ e.action.kind = "WithDurationRetryAction" =>
                /\ req.strategy.kind = "BestEffort"
                /\ e.action.WithDuration = BackoffCalculator(req.strategy.calc, k - 1)
                /\ e.retry => e.wake = e.at + BackoffCalculator(req.strategy.calc, k - 1)
           /\ e.retry => AttemptsAfter(k) = k

\* A request under the default strategy was retried three times for reasons
\* that do not always retry, with backoffs of 1, 2 and 4 milliseconds.
C37_Witness ==
    /\ Len(trace) = 3
    /\ req.strategy = [kind |-> "BestEffort", calc |-> "exponential"]
    /\ \A k \in 1..3 :
         /\ trace[k].decided /\ trace[k].retry
         /\ ~AlwaysRetry(trace[k].outcome)
         /\ trace[k].wake - trace[k].at = <<1, 2, 4>>[k]
    /\ req.attempts = 3

\* ------------------------------------------------------------ Bucket: claims

\* The accessors the bootstrap error stands before.
Guarded == GuardedProviders \cup {"WaitUntilReady"}

\* C38: while a bootstrap error is stored on the Bucket, a call of
\* getKvProvider, getKvCapabilitiesProvider, getKvBulkProvider,
\* getQueryProvider, getAnalyticsProvider or WaitUntilReady returns that
\* error and does not ask the connection manager, and leaves the error
\* stored for the calls that follow; while none is stored, the call asks the
\* connection manager once and returns what it answered (WaitUntilReady: its
\* error, or else what the provider it gave answered to WaitUntilReady).
C38_BootstrapErrorShortCircuits ==
    [][calls' = calls + 1 =>
         /\ bootstrapError' = bootstrapError
         /\ lastCall'.fn \in Guarded =>
              IF bootstrapError # "nil"
              THEN /\ lastCall'.err = bootstrapError
                   /\ lastCall'.agent = "nil"
                   /\ ~lastCall'.consulted
                   /\ consults' = consults
              ELSE /\ lastCall'.consulted
                   /\ consults' = consults + 1
                   /\ lastCall'.answer \in ManagerAnswers
                   /\ lastCall'.fn # "WaitUntilReady" =>
                        /\ lastCall'.agent = lastCall'.answer.agent
                        /\ lastCall'.err = lastCall'.answer.err
                   /\ lastCall'.fn = "WaitUntilReady" =>
                        lastCall'.err = (IF lastCall'.answer.err # "nil"
                                         THEN lastCall'.answer.err
                                         ELSE lastCall'.waited)]_vars

\* With a bootstrap error stored, MaxCalls calls of the accessors have
\* returned without the connection manager being asked once, the last one,
\* of getKvBulkProvider, with the stored error.
C38_Witness ==
    /\ bootstrapError = "errOpenA"
    /\ calls = MaxCalls
    /\ consults = 0
    /\ lastCall.fn = "getKvBulkProvider"
    /\ lastCall.err = "errOpenA"
    /\ lastCall.agent = "nil"

====
